---- MODULE Spec2Model ----
(***************************************************************************)
(* Expression compilation core of packages/malloy/src/lang/ast/ast-expr.ts *)
(* as a state machine: the parser's node constructors build an expression  *)
(* tree, and one of the evaluation entry points (translation,              *)
(* requestTranslation, apply, fieldDef) is then run on its root against a  *)
(* FieldSpace.  Every evaluation returns the ExprValue, the diagnostics    *)
(* logged on the way (in order) and whether a JavaScript exception escaped.*)
(***************************************************************************)
EXTENDS Integers, Sequences, FiniteSets, TLC

VARIABLES
  fs,      \* the FieldSpace the tree is translated against
  node,    \* the root of the expression tree built so far
  built,   \* number of composite constructors applied to build node
  call,    \* the entry point that was run: "none" before any
  arg,     \* the (op, other) arguments of an apply call
  result,  \* outcome of the call
  isSetup,       \* DuckDBWasmConnection.isSetup
  database,      \* DuckDBWasmConnection.database: 0 while undefined
  connection,    \* DuckDBWasmConnection.connection: 0 while undefined
  instantiated,  \* number of AsyncDuckDB objects instantiated so far
  connected,     \* number of connections the databases have opened so far
  task,          \* per caller: the asynchronous call in progress on the connection
  modelSource,   \* useModel: the source of the last render
  connections,   \* useModel: the connections of the last render
  model,         \* useModel: the model state
  promises,      \* the promises of the compileModel calls made so far
  started        \* number of compileModel calls made so far

exprVars == <<fs, node, built, call, arg, result>>

duckVars == <<isSetup, database, connection, instantiated, connected, task>>

hookVars == <<modelSource, connections, model, promises, started>>

vars == <<exprVars, duckVars, hookVars>>

----------------------------------------------------------------------------
(* Bounds of the model *)

\* number of composite constructors applied on top of the initial leaf
MaxBuild == 2

\* number of callers that use the one DuckDBWasmConnection concurrently
MaxCallers == 2

\* number of compileModel calls the renders of useModel start
MaxCompiles == 3

----------------------------------------------------------------------------
(* Fragments and ExprValue (malloy_types Fragment, ast-types ExprValue) *)

Text(s) == [type |-> "text", s |-> s]

FieldFragment(path) == [type |-> "field", path |-> path]

NoPath == <<>>

AggregateFragment(func, e, structPath) ==
  [type |-> "aggregate", function |-> func, e |-> e, structPath |-> structPath]

FilterFragment(e, filterList) ==
  [type |-> "filterExpression", e |-> e, filterList |-> filterList]

\* timeframe "none" stands for an ExprValue without the optional timeframe
ExprValue(dataType, aggregate, value) ==
  [dataType |-> dataType, aggregate |-> aggregate, value |-> value,
   timeframe |-> "none"]

errorFor == ExprValue("error", FALSE, <<>>)

compose(left, op, right) == left \o <<Text(" " \o op \o " ")>> \o right

RECURSIVE compressExpr(_)
compressExpr(expr) ==
  IF Len(expr) < 2 THEN expr
  ELSE LET rest == compressExpr(Tail(expr))
           h == Head(expr)
       IN IF h.type = "text" /\ Head(rest).type = "text"
          THEN <<Text(h.s \o Head(rest).s)>> \o Tail(rest)
          ELSE <<h>> \o rest

nullsafeNot(expr) ==
  <<Text("(")>> \o expr \o <<Text(") is null or not (")>> \o expr \o <<Text(")")>>

\* the predefined type shapes FT.stringT ... FT.nullT
FT_T(dataType) == [dataType |-> dataType, aggregate |-> FALSE]

FT_AggT(dataType) == [dataType |-> dataType, aggregate |-> TRUE]

FT_typeEq(x, y, nullOk) ==
  \/ nullOk /\ (x.dataType = "null" \/ y.dataType = "null")
  \/ x.dataType = y.dataType

FT_in(check, from) ==
  \E okType \in from :
    okType.dataType = check.dataType /\ okType.aggregate = check.aggregate

FT_anyAtomicT ==
  {FT_T(t) : t \in {"string", "number", "boolean", "date", "timestamp"}}

isAtomicFieldType(t) == t \in {"string", "number", "boolean", "date", "timestamp"}

----------------------------------------------------------------------------
(* Outcome of an evaluation *)

\* a diagnostic logged against the node whose elementType is `at`
Diag(at, msg) == [at |-> at, msg |-> msg]

NoValue == ExprValue("none", FALSE, <<>>)

Returned(v, log) == [threw |-> FALSE, denied |-> FALSE, v |-> v, log |-> log]

\* requestTranslation returning undefined
Denied(log) == [threw |-> FALSE, denied |-> TRUE, v |-> NoValue, log |-> log]

\* a JavaScript exception escaping the call
Threw(log) == [threw |-> TRUE, denied |-> FALSE, v |-> NoValue, log |-> log]

NoResult == [threw |-> FALSE, denied |-> FALSE, v |-> NoValue, log |-> <<>>]

----------------------------------------------------------------------------
(* FieldSpace: field(name) is defined on DOMAIN of the space; names are    *)
(* dotted paths kept as sequences of segments.                             *)

FieldEntry(type, aggregate) == [type |-> type, aggregate |-> aggregate]

FieldPath_body(path) == SubSeq(path, 1, Len(path) - 1)

FieldPath_foot(path) == path[Len(path)]

SalesSpace ==
  (<<"x">> :> FieldEntry("number", FALSE)) @@
  (<<"b">> :> FieldEntry("boolean", FALSE)) @@
  (<<"sold">> :> FieldEntry("number", TRUE)) @@
  (<<"items">> :> FieldEntry("struct", FALSE)) @@
  (<<"items", "price">> :> FieldEntry("number", FALSE))

FieldSpaces == {SalesSpace}

----------------------------------------------------------------------------
(* AST nodes: one record constructor per class constructor.  An optional   *)
(* child that was not given is Undefined; an optional source path that was *)
(* not given is NoPath.                                                    *)

Undefined == [kind |-> "undefined"]

ExprString(value) == [kind |-> "ExprString", value |-> value]

ExprNumber(n) == [kind |-> "ExprNumber", n |-> n]

ExprRegEx(regex) == [kind |-> "ExprRegEx", regex |-> regex]

ExprTime(timeType, value, aggregate) ==
  [kind |-> "ExprTime", elementType |-> timeType,
   translationValue |-> ExprValue(timeType, aggregate, value)]

ExprTimeLiteral(timeType, value) ==
  ExprTime(timeType, <<Text("'" \o value \o "'")>>, FALSE)

Boolean(value) == [kind |-> "Boolean", value |-> value]

ExprField(fieldName) == [kind |-> "ExprField", fieldName |-> fieldName]

ExprNULL == [kind |-> "ExprNULL"]

ExprNot(expr) == [kind |-> "ExprNot", expr |-> expr]

ExprParens(expr) == [kind |-> "ExprParens", expr |-> expr]

ExprMinus(expr) == [kind |-> "ExprMinus", expr |-> expr]

ExprLogicalOp(left, op, right) ==
  [kind |-> "ExprLogicalOp", left |-> left, op |-> op, right |-> right]

ExprAddSub(left, op, right) ==
  [kind |-> "ExprAddSub", left |-> left, op |-> op, right |-> right]

ExprMulDiv(left, op, right) ==
  [kind |-> "ExprMulDiv", left |-> left, op |-> op, right |-> right]

ExprAlternationTree(left, op, right) ==
  [kind |-> "ExprAlternationTree", left |-> left, op |-> op, right |-> right]

ExprAggregateFunction(kind, func, expr, source) ==
  [kind |-> kind, func |-> func, expr |-> expr, source |-> source]

ExprMin(expr) == ExprAggregateFunction("ExprMin", "min", expr, NoPath)

ExprMax(expr) == ExprAggregateFunction("ExprMax", "max", expr, NoPath)

ExprCountDistinct(expr) ==
  ExprAggregateFunction("ExprCountDistinct", "count_distinct", expr, NoPath)

ExprAvg(expr, source) == ExprAggregateFunction("ExprAvg", "avg", expr, source)

ExprSum(expr, source) == ExprAggregateFunction("ExprSum", "sum", expr, source)

ExprCount(source) == ExprAggregateFunction("ExprCount", "count", Undefined, source)

WhenClause(whenThis, thenThis) == [whenThis |-> whenThis, thenThis |-> thenThis]

ExprCase(when, elseClause) ==
  [kind |-> "ExprCase", when |-> when, elseClause |-> elseClause]

\* a Filter is known here by the conditions getFilterList yields
FilterCond(value, aggregate) == [value |-> value, aggregate |-> aggregate]

ExprFilter(expr, filter) == [kind |-> "ExprFilter", expr |-> expr, filter |-> filter]

ExprCast(expr, castType, safe) ==
  [kind |-> "ExprCast", expr |-> expr, castType |-> castType, safe |-> safe]

Range(first, last) == [kind |-> "Range", first |-> first, last |-> last]

PickWhen(pick, when) == [pick |-> pick, when |-> when]

Pick(choices, elsePick) ==
  [kind |-> "Pick", choices |-> choices, elsePick |-> elsePick]

AggregateKinds ==
  {"ExprMin", "ExprMax", "ExprCountDistinct", "ExprAvg", "ExprSum", "ExprCount"}

elementType(n) ==
  CASE n.kind = "ExprString" -> "string literal"
    [] n.kind = "ExprNumber" -> "numeric literal"
    [] n.kind = "ExprRegEx" -> "regular expression literal"
    [] n.kind = "ExprTime" -> n.elementType
    [] n.kind = "Boolean" -> "boolean literal"
    [] n.kind = "ExprField" -> "field name"
    [] n.kind = "ExprNULL" -> "NULL"
    [] n.kind = "ExprNot" -> "not"
    [] n.kind = "ExprParens" -> "(expression)"
    [] n.kind = "ExprMinus" -> "unary minus"
    [] n.kind = "ExprLogicalOp" -> "logical operator"
    [] n.kind = "ExprAddSub" -> "+-"
    [] n.kind = "ExprMulDiv" -> "*/"
    [] n.kind = "ExprAlternationTree" -> n.op \o "alternation" \o n.op
    [] n.kind \in AggregateKinds -> n.func
    [] n.kind = "ExprCase" -> "case statement"
    [] n.kind = "ExprFilter" -> "filtered expression"
    [] n.kind = "ExprCast" -> "cast"
    [] n.kind = "Range" -> "range"
    [] n.kind = "Pick" -> "pick"

legalChildTypes(n) ==
  CASE n.kind = "ExprNot" -> {FT_T("boolean"), FT_T("null")}
    [] n.kind = "ExprLogicalOp" -> {FT_T("boolean"), FT_AggT("boolean")}
    [] n.kind = "ExprAlternationTree" -> {FT_T("boolean")}
    [] n.kind \in {"ExprMinus", "ExprAddSub", "ExprMulDiv"} -> {FT_T("number")}
    [] n.kind \in {"ExprAvg", "ExprSum", "ExprCount"} -> {FT_T("number")}
    [] n.kind \in {"ExprMin", "ExprMax", "ExprCountDistinct"} ->
         {FT_T("number"), FT_T("string"), FT_T("date"), FT_T("timestamp")}
    [] n.kind = "ExprFilter" ->
         {FT_T("string"), FT_T("number"), FT_T("date"), FT_T("timestamp")}
    [] OTHER -> FT_anyAtomicT

\* what typeCheck yields: its boolean and the diagnostic it logged, if any
typeCheck(self, eNode, eVal) ==
  IF ~FT_in(eVal, legalChildTypes(self))
  THEN [ok |-> FALSE, log |-> <<Diag(elementType(eNode), "Can't use type")>>]
  ELSE [ok |-> TRUE, log |-> <<>>]

----------------------------------------------------------------------------
(* The Translate contract.  f is the FieldSpace.  The three entry points   *)
(* of a node dispatch on its class, as the method overrides do.            *)

\* the virtual call of `method` on node n, resolved by the class of n
RECURSIVE dispatch(_, _, _, _, _)

translation(n, f) == dispatch("translation", n, f, "none", Undefined)

apply(n, f, op, left) == dispatch("apply", n, f, op, left)

requestTranslation(n, f) ==
  dispatch("requestTranslation", n, f, "none", Undefined)

thisValueToTimestamp(self, selfValue) ==
  IF selfValue.dataType = "timestamp"
  THEN self
  ELSE ExprTime("timestamp",
                compressExpr(<<Text("TIMESTAMP(")>> \o selfValue.value \o <<Text(")")>>),
                selfValue.aggregate)

ExprString_translation(n) ==
  Returned(ExprValue("string", FALSE, <<Text(n.value)>>), <<>>)

ExprNumber_translation(n) ==
  Returned(ExprValue("number", FALSE, <<Text(n.n)>>), <<>>)

ExprRegEx_translation(n) ==
  Returned(ExprValue("regular expression", FALSE,
                     <<Text("r'" \o n.regex \o "'")>>), <<>>)

ExprTime_translation(n) == Returned(n.translationValue, <<>>)

Boolean_translation(n) ==
  Returned(ExprValue("boolean", FALSE, <<Text(n.value)>>), <<>>)

ExprNULL_translation(n) ==
  Returned(ExprValue("null", FALSE, <<Text("NULL")>>), <<>>)

ExprField_translation(n, f) ==
  IF n.fieldName \in DOMAIN f
  THEN LET typeMixin == f[n.fieldName]
       IN Returned(ExprValue(typeMixin.type, typeMixin.aggregate,
                             <<FieldFragment(n.fieldName)>>), <<>>)
  ELSE Returned(errorFor, <<Diag(elementType(n), "Reference to undefined field")>>)

\* ExprNot emitting a plain SQL not
ExprNot_translation_plainNot(n, f) ==
  LET notThis == translation(n.expr, f)
      check == typeCheck(n, n.expr, notThis.v)
  IN IF notThis.threw THEN notThis
     ELSE IF check.ok
     THEN Returned([notThis.v EXCEPT
                      !.dataType = "boolean",
                      !.value = <<Text("not (")>> \o notThis.v.value \o <<Text(")")>>],
                   notThis.log \o check.log)
     ELSE Returned(errorFor, notThis.log \o check.log)

ExprNot_translation(n, f) ==
  LET notThis == translation(n.expr, f)
      check == typeCheck(n, n.expr, notThis.v)
  IN IF notThis.threw THEN notThis
     ELSE IF check.ok
     THEN Returned([notThis.v EXCEPT !.dataType = "boolean",
                                     !.value = nullsafeNot(notThis.v.value)],
                   notThis.log \o check.log)
     ELSE Returned(errorFor, notThis.log \o check.log)

BinaryBoolean_translation(n, f) ==
  LET left == translation(n.left, f)
      right == translation(n.right, f)
      checkL == typeCheck(n, n.left, left.v)
      checkR == typeCheck(n, n.right, right.v)
  IN IF left.threw THEN left
     ELSE IF right.threw THEN Threw(left.log \o right.log)
     ELSE IF ~checkL.ok
     THEN Returned(errorFor, left.log \o right.log \o checkL.log)
     ELSE IF ~checkR.ok
     THEN Returned(errorFor, left.log \o right.log \o checkR.log)
     ELSE Returned(ExprValue("boolean", left.v.aggregate \/ right.v.aggregate,
                             compose(left.v.value, n.op, right.v.value)),
                   left.log \o right.log)

ExprParens_translation(n, f) ==
  LET subExpr == translation(n.expr, f)
  IN IF subExpr.threw THEN subExpr
     ELSE Returned([subExpr.v EXCEPT
                      !.value = <<Text("(")>> \o subExpr.v.value \o <<Text(")")>>],
                   subExpr.log)

ExprMinus_translation(n, f) ==
  LET expr == translation(n.expr, f)
      check == typeCheck(n, n.expr, expr.v)
  IN IF expr.threw THEN expr
     ELSE IF check.ok
     THEN IF Len(expr.v.value) > 1
          THEN Returned([expr.v EXCEPT
                           !.value = <<Text("-(")>> \o expr.v.value \o <<Text(")")>>],
                        expr.log)
          ELSE Returned([expr.v EXCEPT !.value = <<Text("-")>> \o expr.v.value],
                        expr.log)
     ELSE Returned(errorFor, expr.log \o check.log)

BinaryNumeric_translation(n, f) == apply(n.right, f, n.op, n.left)

ExprAlternationTree_translation(n) ==
  Returned(errorFor, <<Diag(elementType(n), "Alternation tree has no value")>>)

\* ExprAlternationTree.apply joining with the wrong connective
ExprAlternationTree_apply_wrongJoin(n, f, applyOp, expr) ==
  LET choice1 == apply(n.left, f, applyOp, expr)
      choice2 == apply(n.right, f, applyOp, expr)
  IN IF choice1.threw THEN choice1
     ELSE IF choice2.threw THEN Threw(choice1.log \o choice2.log)
     ELSE Returned(ExprValue("boolean", choice1.v.aggregate \/ choice2.v.aggregate,
                             compose(choice1.v.value,
                                     IF n.op = "&" THEN "or" ELSE "and",
                                     choice2.v.value)),
                   choice1.log \o choice2.log)

ExprAlternationTree_apply(n, f, applyOp, expr) ==
  LET choice1 == apply(n.left, f, applyOp, expr)
      choice2 == apply(n.right, f, applyOp, expr)
  IN IF choice1.threw THEN choice1
     ELSE IF choice2.threw THEN Threw(choice1.log \o choice2.log)
     ELSE Returned(ExprValue("boolean", choice1.v.aggregate \/ choice2.v.aggregate,
                             compose(choice1.v.value,
                                     IF n.op = "&" THEN "and" ELSE "or",
                                     choice2.v.value)),
                   choice1.log \o choice2.log)

\* returns without the overrides of ExprMin and ExprMax
returns_alwaysNumber(n, forExpression) == "number"

returns(n, forExpression) ==
  IF n.kind \in {"ExprMin", "ExprMax"} THEN forExpression.dataType ELSE "number"

\* the source lookup of an aggregate function: the expression value and the
\* struct path left once an atomic source field has been taken as expression
ExprAggregateFunction_source(n, f, exprVal) ==
  IF n.source # NoPath /\ n.source \in DOMAIN f /\ isAtomicFieldType(f[n.source].type)
  THEN [exprVal |-> ExprValue(f[n.source].type, f[n.source].aggregate,
                              <<FieldFragment(n.source)>>),
        source |-> FieldPath_body(n.source)]
  ELSE [exprVal |-> exprVal, source |-> n.source]

ExprAggregateFunction_translation(n, f) ==
  LET given == IF n.expr = Undefined THEN NoResult ELSE translation(n.expr, f)
      found == ExprAggregateFunction_source(
                 n, f, IF n.expr = Undefined THEN Undefined ELSE given.v)
      exprVal == found.exprVal
      check == typeCheck(n, IF n.expr = Undefined THEN n ELSE n.expr,
                         [exprVal EXCEPT !.aggregate = FALSE])
  IN IF given.threw THEN given
     ELSE IF exprVal = Undefined
     THEN Returned(errorFor,
                   given.log \o <<Diag(elementType(n),
                                       "Missing expression for aggregate function")>>)
     ELSE IF check.ok
     THEN Returned(ExprValue(returns(n, exprVal), TRUE,
                             <<AggregateFragment(n.func, exprVal.value, found.source)>>),
                   given.log)
     ELSE Returned(errorFor, given.log \o check.log)

ExprCount_translation(n) ==
  Returned(ExprValue("number", TRUE, <<AggregateFragment("count", <<>>, n.source)>>),
           <<>>)

\* the loop over the WHEN clauses: st is the loop state (retType, aggregate,
\* caseExpr, log) and `out` the early return, if one was taken
RECURSIVE ExprCase_clauses(_, _, _, _)
ExprCase_clauses(n, f, i, st) ==
  IF i > Len(n.when) THEN st
  ELSE LET whenExpr == translation(n.when[i].whenThis, f)
           thenExpr == translation(n.when[i].thenThis, f)
           log == st.log \o whenExpr.log \o thenExpr.log
       IN IF whenExpr.threw THEN [st EXCEPT !.out = Threw(st.log \o whenExpr.log)]
          ELSE IF thenExpr.threw THEN [st EXCEPT !.out = Threw(log)]
          ELSE IF /\ thenExpr.v.dataType # "null"
                  /\ st.retType # Undefined
                  /\ ~FT_typeEq(st.retType, thenExpr.v, FALSE)
          THEN [st EXCEPT !.out =
                  Returned(errorFor,
                           log \o <<Diag(elementType(n), "Mismatched THEN clause types")>>)]
          ELSE ExprCase_clauses(n, f, i + 1,
                 [retType |-> IF thenExpr.v.dataType # "null"
                              THEN thenExpr.v ELSE st.retType,
                  aggregate |-> st.aggregate \/ whenExpr.v.aggregate
                                  \/ thenExpr.v.aggregate,
                  caseExpr |-> st.caseExpr \o <<Text("WHEN ")>> \o whenExpr.v.value
                                 \o <<Text(" THEN ")>> \o thenExpr.v.value,
                  log |-> log,
                  out |-> Undefined])

\* ExprCase.translation leaving the ELSE value out of the aggregate flag
ExprCase_translation_elseNotAggregate(n, f) ==
  LET st == ExprCase_clauses(n, f, 1,
              [retType |-> Undefined, aggregate |-> FALSE,
               caseExpr |-> <<Text("CASE ")>>, log |-> <<>>, out |-> Undefined])
      hasElse == n.elseClause # Undefined
      elseExpr == IF hasElse THEN translation(n.elseClause, f) ELSE NoResult
      log == st.log \o elseExpr.log
      caseExpr == IF hasElse
                  THEN st.caseExpr \o <<Text(" ELSE ")>> \o elseExpr.v.value
                  ELSE st.caseExpr
      elseTyped == hasElse /\ elseExpr.v.dataType # "null"
      retType == IF elseTyped THEN elseExpr.v ELSE st.retType
  IN IF st.out # Undefined THEN st.out
     ELSE IF elseExpr.threw THEN Threw(log)
     ELSE IF /\ elseTyped
             /\ st.retType # Undefined
             /\ ~FT_typeEq(st.retType, elseExpr.v, FALSE)
     THEN Returned(errorFor,
                   log \o <<Diag(elementType(n), "Mismatched ELSE clause type")>>)
     ELSE IF retType = Undefined
     THEN Returned(errorFor,
                   log \o <<Diag(elementType(n), "case statement type not computable")>>)
     ELSE Returned(ExprValue(retType.dataType, st.aggregate,
                             caseExpr \o <<Text(" END")>>), log)

\* ExprCase.translation without the type check of the ELSE clause
ExprCase_translation_elseUnchecked(n, f) ==
  LET st == ExprCase_clauses(n, f, 1,
              [retType |-> Undefined, aggregate |-> FALSE,
               caseExpr |-> <<Text("CASE ")>>, log |-> <<>>, out |-> Undefined])
      hasElse == n.elseClause # Undefined
      elseExpr == IF hasElse THEN translation(n.elseClause, f) ELSE NoResult
      log == st.log \o elseExpr.log
      aggregate == st.aggregate \/ (hasElse /\ elseExpr.v.aggregate)
      caseExpr == IF hasElse
                  THEN st.caseExpr \o <<Text(" ELSE ")>> \o elseExpr.v.value
                  ELSE st.caseExpr
      elseTyped == hasElse /\ elseExpr.v.dataType # "null"
      retType == IF elseTyped THEN elseExpr.v ELSE st.retType
  IN IF st.out # Undefined THEN st.out
     ELSE IF elseExpr.threw THEN Threw(log)
     ELSE IF retType = Undefined
     THEN Returned(errorFor,
                   log \o <<Diag(elementType(n), "case statement type not computable")>>)
     ELSE Returned(ExprValue(retType.dataType, aggregate,
                             caseExpr \o <<Text(" END")>>), log)

ExprCase_translation(n, f) ==
  LET st == ExprCase_clauses(n, f, 1,
              [retType |-> Undefined, aggregate |-> FALSE,
               caseExpr |-> <<Text("CASE ")>>, log |-> <<>>, out |-> Undefined])
      hasElse == n.elseClause # Undefined
      elseExpr == IF hasElse THEN translation(n.elseClause, f) ELSE NoResult
      log == st.log \o elseExpr.log
      aggregate == st.aggregate \/ (hasElse /\ elseExpr.v.aggregate)
      caseExpr == IF hasElse
                  THEN st.caseExpr \o <<Text(" ELSE ")>> \o elseExpr.v.value
                  ELSE st.caseExpr
      elseTyped == hasElse /\ elseExpr.v.dataType # "null"
      retType == IF elseTyped THEN elseExpr.v ELSE st.retType
  IN IF st.out # Undefined THEN st.out
     ELSE IF elseExpr.threw THEN Threw(log)
     ELSE IF /\ elseTyped
             /\ st.retType # Undefined
             /\ ~FT_typeEq(st.retType, elseExpr.v, FALSE)
     THEN Returned(errorFor,
                   log \o <<Diag(elementType(n), "Mismatched ELSE clause type")>>)
     ELSE IF retType = Undefined
     THEN Returned(errorFor,
                   log \o <<Diag(elementType(n), "case statement type not computable")>>)
     ELSE Returned(ExprValue(retType.dataType, aggregate,
                             caseExpr \o <<Text(" END")>>), log)

getFilterList(filter, f) == filter

\* ExprFilter.translation returning the inner value of an aggregate as it is
ExprFilter_translation_unwrapped(n, f) ==
  LET testList == getFilterList(n.filter, f)
      resultExpr == translation(n.expr, f)
  IN IF resultExpr.threw THEN resultExpr
     ELSE IF \E i \in 1..Len(testList) : testList[i].aggregate
     THEN Returned(errorFor,
                   resultExpr.log \o
                     <<Diag("filter", "Cannot filter a field with an aggregate computation")>>)
     ELSE resultExpr

\* ExprFilter.translation wrapping the inner value whether aggregate or not
ExprFilter_translation_alwaysWrapped(n, f) ==
  LET testList == getFilterList(n.filter, f)
      resultExpr == translation(n.expr, f)
      check == typeCheck(n, n.expr, [resultExpr.v EXCEPT !.aggregate = FALSE])
  IN IF resultExpr.threw THEN resultExpr
     ELSE IF \E i \in 1..Len(testList) : testList[i].aggregate
     THEN Returned(errorFor,
                   resultExpr.log \o
                     <<Diag("filter", "Cannot filter a field with an aggregate computation")>>)
     ELSE IF check.ok
     THEN Returned([resultExpr.v EXCEPT
                      !.value = <<FilterFragment(resultExpr.v.value, testList)>>],
                   resultExpr.log)
     ELSE Returned(errorFor,
                   resultExpr.log \o check.log \o
                     <<Diag(elementType(n.expr), "Cannot filter data of this type")>>)

ExprFilter_translation(n, f) ==
  LET testList == getFilterList(n.filter, f)
      resultExpr == translation(n.expr, f)
      check == typeCheck(n, n.expr, [resultExpr.v EXCEPT !.aggregate = FALSE])
  IN IF resultExpr.threw THEN resultExpr
     ELSE IF \E i \in 1..Len(testList) : testList[i].aggregate
     THEN Returned(errorFor,
                   resultExpr.log \o
                     <<Diag("filter", "Cannot filter a field with an aggregate computation")>>)
     ELSE IF ~resultExpr.v.aggregate THEN resultExpr
     ELSE IF check.ok
     THEN Returned([resultExpr.v EXCEPT
                      !.value = <<FilterFragment(resultExpr.v.value, testList)>>],
                   resultExpr.log)
     ELSE Returned(errorFor,
                   resultExpr.log \o check.log \o
                     <<Diag(elementType(n.expr), "Cannot filter data of this type")>>)

\* ExprCast.translation without the safe flag
ExprCast_translation_neverSafe(n, f) ==
  LET expr == translation(n.expr, f)
      castTo == IF n.castType = "number" THEN "float64" ELSE n.castType
      cast == "cast"
      castValue ==
        IF castTo = "timestamp" /\ expr.v.dataType = "date"
        THEN <<Text("TIMESTAMP(")>> \o expr.v.value \o <<Text(")")>>
        ELSE <<Text(cast \o "(")>> \o expr.v.value \o <<Text(" as " \o castTo \o ")")>>
  IN IF expr.threw THEN expr
     ELSE IF castTo = "date" /\ expr.v.dataType = "timestamp"
     THEN Returned([dataType |-> "date", aggregate |-> expr.v.aggregate,
                    timeframe |-> "day",
                    value |-> compressExpr(<<Text("DATE(")>> \o expr.v.value
                                             \o <<Text(")")>>)],
                   expr.log)
     ELSE Returned([expr.v EXCEPT !.dataType = n.castType,
                                  !.value = compressExpr(castValue)],
                   expr.log)

ExprCast_translation(n, f) ==
  LET expr == translation(n.expr, f)
      castTo == IF n.castType = "number" THEN "float64" ELSE n.castType
      cast == IF n.safe THEN "safe_cast" ELSE "cast"
      castValue ==
        IF castTo = "timestamp" /\ expr.v.dataType = "date"
        THEN <<Text("TIMESTAMP(")>> \o expr.v.value \o <<Text(")")>>
        ELSE <<Text(cast \o "(")>> \o expr.v.value \o <<Text(" as " \o castTo \o ")")>>
  IN IF expr.threw THEN expr
     ELSE IF castTo = "date" /\ expr.v.dataType = "timestamp"
     THEN Returned([dataType |-> "date", aggregate |-> expr.v.aggregate,
                    timeframe |-> "day",
                    value |-> compressExpr(<<Text("DATE(")>> \o expr.v.value
                                             \o <<Text(")")>>)],
                   expr.log)
     ELSE Returned([expr.v EXCEPT !.dataType = n.castType,
                                  !.value = compressExpr(castValue)],
                   expr.log)

\* Range.apply comparing against the wrong bound for > and <=
Range_apply_wrongBound(n, f, op, expr) ==
  IF op \in {"=", "!="}
  THEN LET fromValue == apply(n.first, f, IF op = "=" THEN ">=" ELSE "<", expr)
           toValue == apply(n.last, f, IF op = "=" THEN "<" ELSE ">=", expr)
       IN IF fromValue.threw THEN fromValue
          ELSE IF toValue.threw THEN Threw(fromValue.log \o toValue.log)
          ELSE Returned(ExprValue("boolean",
                                  fromValue.v.aggregate \/ toValue.v.aggregate,
                                  compose(fromValue.v.value,
                                          IF op = "=" THEN "and" ELSE "or",
                                          toValue.v.value)),
                        fromValue.log \o toValue.log)
  ELSE IF op = ">" THEN apply(n.first, f, ">=", expr)
  ELSE IF op = ">=" THEN apply(n.first, f, ">=", expr)
  ELSE IF op = "<" THEN apply(n.first, f, "<", expr)
  ELSE IF op = "<=" THEN apply(n.first, f, "<", expr)
  ELSE Threw(<<>>)

Range_apply(n, f, op, expr) ==
  IF op \in {"=", "!="}
  THEN LET op1 == IF op = "=" THEN ">=" ELSE "<"
           op2 == IF op = "=" THEN "and" ELSE "or"
           op3 == IF op = "=" THEN "<" ELSE ">="
           fromValue == apply(n.first, f, op1, expr)
           toValue == apply(n.last, f, op3, expr)
       IN IF fromValue.threw THEN fromValue
          ELSE IF toValue.threw THEN Threw(fromValue.log \o toValue.log)
          ELSE Returned(ExprValue("boolean",
                                  fromValue.v.aggregate \/ toValue.v.aggregate,
                                  compose(fromValue.v.value, op2, toValue.v.value)),
                        fromValue.log \o toValue.log)
  ELSE IF op = ">" THEN apply(n.last, f, ">=", expr)
  ELSE IF op = ">=" THEN apply(n.first, f, ">=", expr)
  ELSE IF op = "<" THEN apply(n.first, f, "<", expr)
  ELSE IF op = "<=" THEN apply(n.last, f, "<", expr)
  ELSE Threw(<<>>)

Range_translation(n) == Returned(errorFor, <<>>)

\* the scan of choices.find in Pick.requestTranslation, from choice i on:
\* whether a choice without pick or with a denying when was found
RECURSIVE Pick_findPartial(_, _, _, _)
Pick_findPartial(n, f, i, log) ==
  IF i > Len(n.choices) THEN [found |-> FALSE, threw |-> FALSE, log |-> log]
  ELSE IF n.choices[i].pick = Undefined
  THEN [found |-> TRUE, threw |-> FALSE, log |-> log]
  ELSE LET req == requestTranslation(n.choices[i].when, f)
       IN IF req.threw THEN [found |-> FALSE, threw |-> TRUE, log |-> log \o req.log]
          ELSE IF req.denied THEN [found |-> TRUE, threw |-> FALSE, log |-> log \o req.log]
          ELSE Pick_findPartial(n, f, i + 1, log \o req.log)

\* Pick.requestTranslation scanning the choices for an omitted pick only
Pick_requestTranslation_pickOnly(n, f) ==
  IF n.elsePick = Undefined THEN Denied(<<>>)
  ELSE IF \E i \in 1..Len(n.choices) : n.choices[i].pick = Undefined
  THEN Denied(<<>>)
  ELSE translation(n, f)

Pick_requestTranslation(n, f) ==
  IF n.elsePick = Undefined THEN Denied(<<>>)
  ELSE LET scan == Pick_findPartial(n, f, 1, <<>>)
           value == translation(n, f)
       IN IF scan.threw THEN Threw(scan.log)
          ELSE IF scan.found THEN Denied(scan.log)
          ELSE [value EXCEPT !.log = scan.log \o value.log]

\* the loop of Pick.apply over the choices
RECURSIVE Pick_applyChoices(_, _, _, _, _)
Pick_applyChoices(n, f, expr, i, st) ==
  IF i > Len(n.choices) THEN st
  ELSE LET choice == n.choices[i]
           whenExpr == apply(choice.when, f, "=", expr)
           thenExpr == IF choice.pick # Undefined
                       THEN translation(choice.pick, f)
                       ELSE translation(expr, f)
           log == st.log \o whenExpr.log \o thenExpr.log
       IN IF whenExpr.threw THEN [st EXCEPT !.out = Threw(st.log \o whenExpr.log)]
          ELSE IF thenExpr.threw THEN [st EXCEPT !.out = Threw(log)]
          ELSE IF st.returnType # Undefined /\ ~FT_typeEq(st.returnType, thenExpr.v, TRUE)
          THEN [st EXCEPT !.out =
                  Returned(errorFor,
                           log \o <<Diag(elementType(n), "pick value types do not match")>>)]
          ELSE Pick_applyChoices(n, f, expr, i + 1,
                 [returnType |-> IF st.returnType # Undefined
                                 THEN st.returnType ELSE thenExpr.v,
                  anyAggregate |-> st.anyAggregate \/ whenExpr.v.aggregate
                                     \/ thenExpr.v.aggregate,
                  caseValue |-> st.caseValue \o <<Text(" WHEN ")>> \o whenExpr.v.value
                                  \o <<Text(" THEN ")>> \o thenExpr.v.value,
                  log |-> log,
                  out |-> Undefined])

\* Pick.apply falling back to the pick's own value for operators other than =
Pick_apply_valueUnlessEquals(n, f, op, expr) ==
  LET st == Pick_applyChoices(n, f, expr, 1,
              [returnType |-> Undefined, anyAggregate |-> FALSE,
               caseValue |-> <<Text("CASE")>>, log |-> <<>>, out |-> Undefined])
      elsePart == IF n.elsePick # Undefined THEN n.elsePick ELSE expr
      elseVal == translation(elsePart, f)
      returnType == IF st.returnType # Undefined THEN st.returnType ELSE elseVal.v
      log == st.log \o elseVal.log
  IN IF op # "=" THEN translation(n, f)
     ELSE IF st.out # Undefined THEN st.out
     ELSE IF elseVal.threw THEN Threw(log)
     ELSE IF ~FT_typeEq(returnType, elseVal.v, TRUE)
     THEN Returned(errorFor,
                   log \o <<Diag(elementType(n), "else value types do not match")>>)
     ELSE Returned(ExprValue(returnType.dataType,
                             st.anyAggregate \/ elseVal.v.aggregate,
                             st.caseValue \o <<Text(" ELSE ")>> \o elseVal.v.value
                               \o <<Text(" END")>>),
                   log)

\* Pick.apply taking `expr` for the else whether or not the pick has one
Pick_apply_exprForElse(n, f, op, expr) ==
  LET st == Pick_applyChoices(n, f, expr, 1,
              [returnType |-> Undefined, anyAggregate |-> FALSE,
               caseValue |-> <<Text("CASE")>>, log |-> <<>>, out |-> Undefined])
      elseVal == translation(expr, f)
      returnType == IF st.returnType # Undefined THEN st.returnType ELSE elseVal.v
      log == st.log \o elseVal.log
  IN IF st.out # Undefined THEN st.out
     ELSE IF elseVal.threw THEN Threw(log)
     ELSE IF ~FT_typeEq(returnType, elseVal.v, TRUE)
     THEN Returned(errorFor,
                   log \o <<Diag(elementType(n), "else value types do not match")>>)
     ELSE Returned(ExprValue(returnType.dataType,
                             st.anyAggregate \/ elseVal.v.aggregate,
                             st.caseValue \o <<Text(" ELSE ")>> \o elseVal.v.value
                               \o <<Text(" END")>>),
                   log)

Pick_apply(n, f, op, expr) ==
  LET st == Pick_applyChoices(n, f, expr, 1,
              [returnType |-> Undefined, anyAggregate |-> FALSE,
               caseValue |-> <<Text("CASE")>>, log |-> <<>>, out |-> Undefined])
      elsePart == IF n.elsePick # Undefined THEN n.elsePick ELSE expr
      elseVal == translation(elsePart, f)
      returnType == IF st.returnType # Undefined THEN st.returnType ELSE elseVal.v
      log == st.log \o elseVal.log
  IN IF st.out # Undefined THEN st.out
     ELSE IF elseVal.threw THEN Threw(log)
     ELSE IF ~FT_typeEq(returnType, elseVal.v, TRUE)
     THEN Returned(errorFor,
                   log \o <<Diag(elementType(n), "else value types do not match")>>)
     ELSE Returned(ExprValue(returnType.dataType,
                             st.anyAggregate \/ elseVal.v.aggregate,
                             st.caseValue \o <<Text(" ELSE ")>> \o elseVal.v.value
                               \o <<Text(" END")>>),
                   log)

\* the first loop of Pick.translation: the Choice values, or an early return
RECURSIVE Pick_choiceValues(_, _, _, _)
Pick_choiceValues(n, f, i, st) ==
  IF i > Len(n.choices) THEN st
  ELSE LET c == n.choices[i]
           pickWhen == requestTranslation(c.when, f)
           pick == translation(c.pick, f)
           when == translation(c.when, f)
       IN IF c.pick = Undefined
          THEN [st EXCEPT !.out =
                  Returned(errorFor,
                           st.log \o <<Diag(elementType(n),
                               "pick with no value can only be used with apply")>>)]
          ELSE IF pickWhen.threw THEN [st EXCEPT !.out = Threw(st.log \o pickWhen.log)]
          ELSE IF pickWhen.denied
          THEN [st EXCEPT !.out =
                  Returned(errorFor,
                           st.log \o pickWhen.log \o <<Diag(elementType(n),
                               "pick with partial when can only be used with apply")>>)]
          ELSE IF pick.threw
          THEN [st EXCEPT !.out = Threw(st.log \o pickWhen.log \o pick.log)]
          ELSE IF when.threw
          THEN [st EXCEPT !.out =
                  Threw(st.log \o pickWhen.log \o pick.log \o when.log)]
          ELSE Pick_choiceValues(n, f, i + 1,
                 [choiceValues |-> Append(st.choiceValues,
                                          [pick |-> pick.v, when |-> when.v]),
                  log |-> st.log \o pickWhen.log \o pick.log \o when.log,
                  out |-> Undefined])

\* the second loop of Pick.translation, over the Choice values
RECURSIVE Pick_caseValue(_, _, _, _, _)
Pick_caseValue(n, choiceValues, returnType, i, st) ==
  IF i > Len(choiceValues) THEN st
  ELSE LET aChoice == choiceValues[i]
       IN IF ~FT_typeEq(aChoice.when, FT_T("boolean"), FALSE)
          THEN [st EXCEPT !.out =
                  Returned(errorFor,
                           st.log \o <<Diag(elementType(n),
                               "Cannot generate value from pick. WHEN value of type")>>)]
          ELSE IF ~FT_typeEq(returnType, aChoice.pick, TRUE)
          THEN [st EXCEPT !.out =
                  Returned(errorFor,
                           st.log \o <<Diag(elementType(n),
                               "pick value types do not match")>>)]
          ELSE Pick_caseValue(n, choiceValues, returnType, i + 1,
                 [anyAggregate |-> st.anyAggregate \/ aChoice.pick.aggregate
                                     \/ aChoice.when.aggregate,
                  caseValue |-> st.caseValue \o <<Text(" WHEN ")>> \o aChoice.when.value
                                  \o <<Text(" THEN ")>> \o aChoice.pick.value,
                  log |-> st.log,
                  out |-> Undefined])

\* Pick.translation taking the dataType of the else value
Pick_translation_elseType(n, f) ==
  LET first == Pick_choiceValues(n, f, 1,
                 [choiceValues |-> <<>>, log |-> <<>>, out |-> Undefined])
      returnType == first.choiceValues[1].pick
      second == Pick_caseValue(n, first.choiceValues, returnType, 1,
                  [anyAggregate |-> returnType.aggregate,
                   caseValue |-> <<Text("CASE")>>, log |-> first.log,
                   out |-> Undefined])
      elseValue == translation(n.elsePick, f)
      log == second.log \o elseValue.log
  IN IF n.elsePick = Undefined
     THEN Returned(errorFor,
                   <<Diag(elementType(n),
                          "'pick' has no value, must specify 'else' or use ':'")>>)
     ELSE IF first.out # Undefined THEN first.out
     ELSE IF Len(first.choiceValues) = 0 THEN Threw(first.log)
     ELSE IF second.out # Undefined THEN second.out
     ELSE IF elseValue.threw THEN Threw(log)
     ELSE IF ~FT_typeEq(returnType, elseValue.v, TRUE)
     THEN Returned(errorFor,
                   log \o <<Diag(elementType(n.elsePick),
                                 "pick value types do not match")>>)
     ELSE Returned(ExprValue(elseValue.v.dataType,
                             second.anyAggregate \/ elseValue.v.aggregate,
                             second.caseValue \o <<Text(" ELSE ")>> \o elseValue.v.value
                               \o <<Text(" END")>>),
                   log)

Pick_translation(n, f) ==
  LET first == Pick_choiceValues(n, f, 1,
                 [choiceValues |-> <<>>, log |-> <<>>, out |-> Undefined])
      returnType == first.choiceValues[1].pick
      second == Pick_caseValue(n, first.choiceValues, returnType, 1,
                  [anyAggregate |-> returnType.aggregate,
                   caseValue |-> <<Text("CASE")>>, log |-> first.log,
                   out |-> Undefined])
      elseValue == translation(n.elsePick, f)
      log == second.log \o elseValue.log
  IN IF n.elsePick = Undefined
     THEN Returned(errorFor,
                   <<Diag(elementType(n),
                          "'pick' has no value, must specify 'else' or use ':'")>>)
     ELSE IF first.out # Undefined THEN first.out
     ELSE IF Len(first.choiceValues) = 0 THEN Threw(first.log)
     ELSE IF second.out # Undefined THEN second.out
     ELSE IF elseValue.threw THEN Threw(log)
     ELSE IF ~FT_typeEq(returnType, elseValue.v, TRUE)
     THEN Returned(errorFor,
                   log \o <<Diag(elementType(n.elsePick),
                                 "pick value types do not match")>>)
     ELSE Returned(ExprValue(returnType.dataType,
                             second.anyAggregate \/ elseValue.v.aggregate,
                             second.caseValue \o <<Text(" ELSE ")>> \o elseValue.v.value
                               \o <<Text(" END")>>),
                   log)

ExprParens_apply(n, f, op, expr) == apply(n.expr, f, op, expr)

ExprParens_requestTranslation(n, f) == requestTranslation(n.expr, f)

ExprAlternationTree_requestTranslation(n) == Denied(<<>>)

Range_requestTranslation(n) == Denied(<<>>)

ExpressionDef_requestTranslation(n, f) == translation(n, f)

ArithmeticOps == {"+", "-", "*", "/"}

CompareOps == {"=", "!=", "<", "<=", ">", ">="}

TemporalTypes == {"date", "timestamp"}

\* a temporal value truncated to a timeframe, for granular equality
truncated(v, timeframe) ==
  <<Text("trunc(")>> \o v.value \o <<Text(", " \o timeframe \o ")")>>

\* the fragments of a temporal operand promoted to a timestamp
promoted(self, selfValue) ==
  IF selfValue.dataType = "timestamp"
  THEN selfValue.value
  ELSE thisValueToTimestamp(self, selfValue).translationValue.value

\* a comparison of two translated operands whose data types allow it
compare(left, lhs, op, right, rhs) ==
  LET granularEq == /\ op \in {"=", "!="}
                    /\ lhs.dataType \in TemporalTypes
                    /\ (lhs.timeframe = "none") # (rhs.timeframe = "none")
      timeframe == IF lhs.timeframe = "none" THEN rhs.timeframe ELSE lhs.timeframe
      l == IF lhs.dataType # rhs.dataType THEN promoted(left, lhs)
           ELSE IF granularEq /\ lhs.timeframe = "none"
           THEN truncated(lhs, timeframe)
           ELSE lhs.value
      r == IF lhs.dataType # rhs.dataType THEN promoted(right, rhs)
           ELSE IF granularEq /\ rhs.timeframe = "none"
           THEN truncated(rhs, timeframe)
           ELSE rhs.value
  IN ExprValue("boolean", lhs.aggregate \/ rhs.aggregate, compose(l, op, r))

applyBinary(f, left, op, right) ==
  LET lhs == translation(left, f)
      rhs == translation(right, f)
      log == lhs.log \o rhs.log
      mismatch == Returned(errorFor,
                           log \o <<Diag(elementType(left), "operand type mismatch")>>)
      match == <<Text("REGEXP_CONTAINS(")>> \o lhs.v.value \o <<Text(", ")>>
                 \o rhs.v.value \o <<Text(")")>>
  IN IF lhs.threw THEN lhs
     ELSE IF rhs.threw THEN Threw(log)
     ELSE IF lhs.v.dataType = "error" \/ rhs.v.dataType = "error"
     THEN Returned(errorFor, log)
     ELSE IF op \in ArithmeticOps
     THEN IF lhs.v.dataType = "number" /\ rhs.v.dataType = "number"
          THEN Returned(ExprValue("number", lhs.v.aggregate \/ rhs.v.aggregate,
                                  compose(lhs.v.value, op, rhs.v.value)), log)
          ELSE mismatch
     ELSE IF op \in CompareOps
     THEN IF \/ lhs.v.dataType = rhs.v.dataType
             \/ {lhs.v.dataType, rhs.v.dataType} = TemporalTypes
          THEN Returned(compare(left, lhs.v, op, right, rhs.v), log)
          ELSE mismatch
     ELSE IF op \in {"~", "!~"}
     THEN IF lhs.v.dataType = "string" /\ rhs.v.dataType = "regular expression"
          THEN Returned(ExprValue("boolean", lhs.v.aggregate \/ rhs.v.aggregate,
                                  IF op = "~" THEN match ELSE nullsafeNot(match)), log)
          ELSE mismatch
     ELSE IF op \in {"and", "or"}
     THEN IF lhs.v.dataType = "boolean" /\ rhs.v.dataType = "boolean"
          THEN Returned(ExprValue("boolean", lhs.v.aggregate \/ rhs.v.aggregate,
                                  compose(lhs.v.value, op, rhs.v.value)), log)
          ELSE mismatch
     ELSE Returned(errorFor,
                   log \o <<Diag(elementType(left), "cannot use operator here")>>)

ExpressionDef_apply(n, f, op, left) == applyBinary(f, left, op, n)

translationOf(n, f) ==
  CASE n.kind = "ExprString" -> ExprString_translation(n)
    [] n.kind = "ExprNumber" -> ExprNumber_translation(n)
    [] n.kind = "ExprRegEx" -> ExprRegEx_translation(n)
    [] n.kind = "ExprTime" -> ExprTime_translation(n)
    [] n.kind = "Boolean" -> Boolean_translation(n)
    [] n.kind = "ExprNULL" -> ExprNULL_translation(n)
    [] n.kind = "ExprField" -> ExprField_translation(n, f)
    [] n.kind = "ExprNot" -> ExprNot_translation(n, f)
    [] n.kind = "ExprLogicalOp" -> BinaryBoolean_translation(n, f)
    [] n.kind = "ExprParens" -> ExprParens_translation(n, f)
    [] n.kind = "ExprMinus" -> ExprMinus_translation(n, f)
    [] n.kind \in {"ExprAddSub", "ExprMulDiv"} -> BinaryNumeric_translation(n, f)
    [] n.kind = "ExprAlternationTree" -> ExprAlternationTree_translation(n)
    [] n.kind = "ExprCount" -> ExprCount_translation(n)
    [] n.kind \in AggregateKinds \ {"ExprCount"} ->
         ExprAggregateFunction_translation(n, f)
    [] n.kind = "ExprCase" -> ExprCase_translation(n, f)
    [] n.kind = "ExprFilter" -> ExprFilter_translation(n, f)
    [] n.kind = "ExprCast" -> ExprCast_translation(n, f)
    [] n.kind = "Range" -> Range_translation(n)
    [] n.kind = "Pick" -> Pick_translation(n, f)

applyOf(n, f, op, left) ==
  CASE n.kind = "ExprParens" -> ExprParens_apply(n, f, op, left)
    [] n.kind = "ExprAlternationTree" -> ExprAlternationTree_apply(n, f, op, left)
    [] n.kind = "Range" -> Range_apply(n, f, op, left)
    [] n.kind = "Pick" -> Pick_apply(n, f, op, left)
    [] OTHER -> ExpressionDef_apply(n, f, op, left)

requestTranslationOf(n, f) ==
  CASE n.kind = "ExprParens" -> ExprParens_requestTranslation(n, f)
    [] n.kind = "ExprAlternationTree" -> ExprAlternationTree_requestTranslation(n)
    [] n.kind = "Range" -> Range_requestTranslation(n)
    [] n.kind = "Pick" -> Pick_requestTranslation(n, f)
    [] OTHER -> ExpressionDef_requestTranslation(n, f)

dispatch(method, n, f, op, left) ==
  CASE method = "translation" -> translationOf(n, f)
    [] method = "apply" -> applyOf(n, f, op, left)
    [] method = "requestTranslation" -> requestTranslationOf(n, f)

\* ExpressionFieldDef.fieldDef: the FieldTypeDef and the diagnostics
fieldDef(expr, f, exprName) ==
  LET exprValue == translation(expr, f)
      compressValue == compressExpr(exprValue.v.value)
      retType == exprValue.v.dataType
  IN IF exprValue.threw THEN [exprValue EXCEPT !.v = NoValue]
     ELSE IF isAtomicFieldType(retType)
     THEN Returned([name |-> exprName, type |-> retType, e |-> compressValue,
                    aggregate |-> exprValue.v.aggregate,
                    timeframe |-> IF exprValue.v.timeframe # "none"
                                     /\ retType = "timestamp"
                                  THEN exprValue.v.timeframe ELSE "none"],
                   exprValue.log)
     ELSE Returned([name |-> "error_defining_" \o exprName, type |-> "string",
                    e |-> <<>>, aggregate |-> FALSE, timeframe |-> "none"],
                   exprValue.log \o <<Diag("expressionField",
                                           "Cannot define, unexpected type")>>)

\* ExprAggregateFunction.translation storing the stripped path in this.source
ExprAggregateFunction_written_sourceStripped(n, f) ==
  IF /\ n.kind # "ExprCount"
     /\ n.source # NoPath
     /\ n.source \in DOMAIN f
     /\ isAtomicFieldType(f[n.source].type)
  THEN [n EXCEPT !.source = FieldPath_body(n.source)]
  ELSE n

\* the aggregate function node after its translation: the method rebinds its
\* locals `exprVal` and `source` and assigns no field of `this`
ExprAggregateFunction_written(n, f) == n

\* the tree after an entry point has run on it: apart from the aggregate
\* functions' locals no method assigns anything but local constants, and no
\* method calls more of the FieldSpace than its lookup field()
RECURSIVE written(_, _)
written(n, f) ==
  LET sub(c) == IF c = Undefined THEN c ELSE written(c, f)
  IN CASE n.kind \in {"ExprNot", "ExprParens", "ExprMinus", "ExprCast", "ExprFilter"} ->
            [n EXCEPT !.expr = sub(n.expr)]
       [] n.kind \in AggregateKinds ->
            ExprAggregateFunction_written([n EXCEPT !.expr = sub(n.expr)], f)
       [] n.kind \in {"ExprLogicalOp", "ExprAddSub", "ExprMulDiv", "ExprAlternationTree"} ->
            [n EXCEPT !.left = sub(n.left), !.right = sub(n.right)]
       [] n.kind = "Range" -> [n EXCEPT !.first = sub(n.first), !.last = sub(n.last)]
       [] n.kind = "ExprCase" ->
            [n EXCEPT !.when = [i \in 1..Len(n.when) |->
                                  WhenClause(sub(n.when[i].whenThis),
                                             sub(n.when[i].thenThis))],
                      !.elseClause = sub(n.elseClause)]
       [] n.kind = "Pick" ->
            [n EXCEPT !.choices = [i \in 1..Len(n.choices) |->
                                     PickWhen(sub(n.choices[i].pick),
                                              sub(n.choices[i].when))],
                      !.elsePick = sub(n.elsePick)]
       [] OTHER -> n

----------------------------------------------------------------------------
(* The state machine: the parser builds a tree bottom-up with the node     *)
(* constructors, then one entry point is run on the root.                  *)

Leaves ==
  {ExprNumber("1"), ExprString("'a'"), Boolean("true"), ExprNULL,
   ExprRegEx("a.*"), ExprTimeLiteral("date", "2021-01-01"),
   ExprTimeLiteral("timestamp", "2021-01-01 00:00:00"),
   ExprField(<<"x">>), ExprField(<<"b">>), ExprField(<<"sold">>),
   ExprField(<<"nope">>), ExprCount(NoPath)}

\* the other operand of a binary constructor: a value or a partial
Operands == {ExprNumber("2"), ExprParens(Range(ExprNumber("1"), ExprNumber("10")))}

\* the other operand of a logical operator
BooleanOperands == {ExprField(<<"b">>), ExprNumber("2")}

\* the `other` expression of an apply call
Others == {ExprField(<<"x">>), ExprField(<<"nope">>)}

ApplyOps == CompareOps \cup {"+"}

CastTypes == {"string", "number", "date", "timestamp"}

Filters == {<<>>, <<FilterCond(<<Text("x > 1")>>, FALSE)>>,
            <<FilterCond(<<Text("x > 1")>>, FALSE), FilterCond(<<Text("n > 1")>>, TRUE)>>}

----------------------------------------------------------------------------
(* The DuckDB-Wasm connection and the useModel hook, before any use.  The  *)
(* expression compiler does not touch them.                                *)

Callers == 1..MaxCallers

\* a caller that has no call in progress on the connection
Idle ==
  [method |-> "none", pc |-> "idle", sql |-> <<>>, options |-> <<>>,
   statements |-> <<>>, db |-> 0, issued |-> <<>>, rows |-> <<>>, totalRows |-> 0]

\* new DuckDBWasmConnection(name)
NewConnection ==
  /\ isSetup = FALSE
  /\ database = 0
  /\ connection = 0
  /\ instantiated = 0
  /\ connected = 0
  /\ task = [c \in Callers |-> Idle]

\* the model state useState<Model>() starts with
NoModel == [source |-> "undefined", connections |-> "undefined"]

\* the component that uses useModel is not rendered
Unmounted ==
  /\ modelSource = "undefined"
  /\ connections = "undefined"
  /\ model = NoModel
  /\ promises = {}
  /\ started = 0

Init ==
  /\ NewConnection
  /\ Unmounted
  /\ fs \in FieldSpaces
  /\ node \in Leaves
  /\ built = 0
  /\ call = "none"
  /\ arg = [op |-> "none", other |-> Undefined]
  /\ result = NoResult

CanBuild == call = "none" /\ built < MaxBuild

Build(n) ==
  /\ CanBuild
  /\ node' = n
  /\ built' = built + 1
  /\ UNCHANGED <<fs, call, arg, result>>
  /\ UNCHANGED <<duckVars, hookVars>>

NewExprNot == Build(ExprNot(node))

NewExprParens == Build(ExprParens(node))

NewExprMinus == Build(ExprMinus(node))

NewExprCast == \E t \in CastTypes, safe \in BOOLEAN : Build(ExprCast(node, t, safe))

NewExprAggregateFunction ==
  \/ Build(ExprMin(node))
  \/ Build(ExprMax(node))
  \/ Build(ExprCountDistinct(node))
  \/ Build(ExprAvg(node, NoPath))
  \/ Build(ExprSum(node, NoPath))

NewExprFilter == \E filter \in Filters : Build(ExprFilter(node, filter))

NewExprLogicalOp ==
  \E op \in {"and", "or"}, o \in BooleanOperands :
    \/ Build(ExprLogicalOp(node, op, o))
    \/ Build(ExprLogicalOp(o, op, node))

NewExprAddSub ==
  \E op \in {"+"}, o \in Operands :
    \/ Build(ExprAddSub(node, op, o))
    \/ Build(ExprAddSub(o, op, node))

NewExprMulDiv ==
  \E op \in {"*"}, o \in Operands :
    \/ Build(ExprMulDiv(node, op, o))
    \/ Build(ExprMulDiv(o, op, node))

NewExprAlternationTree ==
  \E op \in {"|", "&"}, o \in Operands :
    \/ Build(ExprAlternationTree(node, op, o))
    \/ Build(ExprAlternationTree(o, op, node))

NewRange ==
  \E o \in Operands : Build(Range(node, o)) \/ Build(Range(o, node))

Run(entry, op, other, outcome) ==
  /\ call = "none"
  /\ call' = entry
  /\ arg' = [op |-> op, other |-> other]
  /\ result' = outcome
  /\ node' = written(node, fs)
  /\ UNCHANGED <<fs, built>>
  /\ UNCHANGED <<duckVars, hookVars>>

Translate == Run("translation", "none", Undefined, translation(node, fs))

RequestTranslate ==
  Run("requestTranslation", "none", Undefined, requestTranslation(node, fs))

Apply ==
  \E op \in ApplyOps, other \in Others :
    Run("apply", op, other, apply(node, fs, op, other))

FieldDef == Run("fieldDef", "none", Undefined, fieldDef(node, fs, "f"))

Next ==
  \/ NewExprNot
  \/ NewExprParens
  \/ NewExprMinus
  \/ NewExprCast
  \/ NewExprAggregateFunction
  \/ NewExprFilter
  \/ NewExprLogicalOp
  \/ NewExprAddSub
  \/ NewExprMulDiv
  \/ NewExprAlternationTree
  \/ NewRange
  \/ Translate
  \/ RequestTranslate
  \/ Apply
  \/ FieldDef

Spec == Init /\ [][Next]_vars

\* the pick, when and else operands that join the node under construction in
\* a pick: present or omitted, boolean or not, a value or a partial
PickValues == {ExprNumber("1"), Undefined}

Whens ==
  {Boolean("true"), ExprNumber("2"),
   ExprParens(Range(ExprNumber("1"), ExprNumber("10")))}

Elses == {ExprNumber("0"), Undefined}

ChoiceLists ==
  {<<>>,
   <<PickWhen(ExprNumber("1"), Boolean("true"))>>,
   <<PickWhen(ExprNumber("1"), Boolean("true")),
     PickWhen(ExprString("'a'"), ExprField(<<"b">>))>>,
   <<PickWhen(ExprNULL, Boolean("true")),
     PickWhen(ExprNumber("1"), ExprField(<<"b">>))>>}

NewPick ==
  \/ \E p \in PickValues, e \in Elses : Build(Pick(<<PickWhen(p, node)>>, e))
  \/ \E w \in Whens, e \in Elses : Build(Pick(<<PickWhen(node, w)>>, e))
  \/ \E c \in ChoiceLists : Build(Pick(c, node))
  \/ \E p \in PickValues, e \in Elses :
       Build(Pick(<<PickWhen(ExprNumber("1"), Boolean("true")), PickWhen(p, node)>>, e))

WhenLists ==
  {<<>>,
   <<WhenClause(Boolean("true"), ExprNumber("1"))>>,
   <<WhenClause(Boolean("true"), ExprNULL), WhenClause(ExprField(<<"b">>), ExprNULL)>>,
   <<WhenClause(Boolean("true"), ExprNumber("1")),
     WhenClause(ExprField(<<"b">>), ExprString("'a'"))>>}

NewExprCase ==
  \/ \E e \in Elses :
       \/ Build(ExprCase(<<WhenClause(node, ExprNumber("1"))>>, e))
       \/ Build(ExprCase(<<WhenClause(Boolean("true"), node)>>, e))
  \/ \E w \in WhenLists : Build(ExprCase(w, node))

NextPick == Next \/ NewPick \/ NewExprCase

\* the trees of Spec together with the pick and case nodes
SpecPick == Init /\ [][NextPick]_vars

\* the source paths of sum and avg: an atomic field, an atomic field in a
\* struct, a struct, and an unknown name
Sources == {<<"x">>, <<"items", "price">>, <<"items">>, <<"nope">>}

\* sum and avg written with a source and no expression
SourceLeaves ==
  {ExprSum(Undefined, <<"items", "price">>), ExprSum(Undefined, <<"items">>),
   ExprAvg(Undefined, <<"x">>), ExprAvg(Undefined, <<"nope">>)}

InitSource ==
  /\ NewConnection
  /\ Unmounted
  /\ fs \in FieldSpaces
  /\ node \in Leaves \cup SourceLeaves
  /\ built = 0
  /\ call = "none"
  /\ arg = [op |-> "none", other |-> Undefined]
  /\ result = NoResult

NewExprAsymmetric ==
  \/ \E source \in Sources : Build(ExprSum(node, source))
  \/ Build(ExprAvg(node, <<"items", "price">>))

\* what the entry point `entry` yields on the node n
Outcome(entry, n, f, op, other) ==
  CASE entry = "translation" -> translation(n, f)
    [] entry = "requestTranslation" -> requestTranslation(n, f)
    [] entry = "apply" -> apply(n, f, op, other)
    [] entry = "fieldDef" -> fieldDef(n, f, "f")

\* the same entry point is run on the same tree a second time
Again ==
  /\ call # "none"
  /\ result' = Outcome(call, node, fs, arg.op, arg.other)
  /\ node' = written(node, fs)
  /\ UNCHANGED <<fs, built, call, arg>>
  /\ UNCHANGED <<duckVars, hookVars>>

NextSource == Next \/ NewExprAsymmetric \/ Again

\* the trees of Spec together with the aggregate functions that have a
\* source, every call being repeatable
SpecSource == InitSource /\ [][NextSource]_vars

----------------------------------------------------------------------------
(* DuckDBWasmConnection (duckdb_wasm_connection.ts).  Every async method   *)
(* runs in steps that end at an await; the steps of different callers      *)
(* interleave.                                                             *)

\* the text runSQL splits on
Marker == "-- hack: split on this"

\* SQL texts as sequences of pieces, a piece being the marker or other text
Texts ==
  {<<"a">>, <<"a", Marker, "b">>, <<Marker, "b">>, <<"a", Marker, "b", Marker, "c">>}

\* RunSQLOptions: with or without rowLimit
Options == {<<>>} \cup {[rowLimit |-> l] : l \in {0, 1}}

\* the numbers of rows a query can answer with
RowCounts == {0, 2, 11}

\* the rows the database answers a statement with
Rows(statement, count) == [i \in 1..count |-> [of |-> statement, row |-> i]]

\* sql.split("-- hack: split on this"): the texts between the markers
RECURSIVE split(_, _)
split(sql, current) ==
  IF sql = <<>> THEN <<current>>
  ELSE IF Head(sql) = Marker THEN <<current>> \o split(Tail(sql), <<>>)
  ELSE split(Tail(sql), Append(current, Head(sql)))

\* options.rowLimit || 10
rowLimit_orTen(options) ==
  IF "rowLimit" \in DOMAIN options /\ options.rowLimit # 0 THEN options.rowLimit ELSE 10

\* options.rowLimit ?? 10
rowLimit(options) ==
  IF "rowLimit" \in DOMAIN options THEN options.rowLimit ELSE 10

\* result.length > rowLimit ? result.slice(0, rowLimit) : result
truncatedRows(rows, limit) ==
  IF Len(rows) > limit THEN SubSeq(rows, 1, limit) ELSE rows

\* setup() up to its first await, for the caller whose call is t: with
\* isSetup it sets isSetup again and its promise is resolved, otherwise it
\* waits for selectBundle
setup_enter(t) ==
  IF isSetup
  THEN [t EXCEPT !.pc = IF t.method = "setup" THEN "done" ELSE "setupDone"]
  ELSE [t EXCEPT !.pc = "selectBundle"]

Starts(c, t) ==
  /\ task[c].pc = "idle"
  /\ task' = [task EXCEPT ![c] = setup_enter(t)]
  /\ UNCHANGED <<isSetup, database, connection, instantiated, connected>>
  /\ UNCHANGED <<exprVars, hookVars>>

\* a caller calls setup()
CallSetup == \E c \in Callers : Starts(c, [Idle EXCEPT !.method = "setup"])

\* a caller calls runRawSQL(sql) (test() is runRawSQL("SELECT 1"))
CallRunRawSQL ==
  \E c \in Callers, sql \in {<<"a">>} :
    Starts(c, [Idle EXCEPT !.method = "runRawSQL", !.sql = sql, !.statements = <<sql>>])

\* a caller calls runSQL(sql, options): split, then runRawSQL(statements[0])
CallRunSQL ==
  \E c \in Callers, sql \in Texts, options \in Options :
    Starts(c, [Idle EXCEPT !.method = "runSQL", !.sql = sql, !.options = options,
                           !.statements = split(sql, <<>>)])

\* selectBundle resolved: new AsyncDuckDB(logger, worker) is stored in
\* this.database and this.database.instantiate(...) is awaited
SelectBundleDone ==
  \E c \in Callers :
    /\ task[c].pc = "selectBundle"
    /\ instantiated' = instantiated + 1
    /\ database' = instantiated + 1
    /\ task' = [task EXCEPT ![c].pc = "instantiate"]
    /\ UNCHANGED <<isSetup, connection, connected>>
    /\ UNCHANGED <<exprVars, hookVars>>

\* instantiate resolved: this.database.connect() is called on the database
\* stored at that moment and awaited
InstantiateDone ==
  \E c \in Callers :
    /\ task[c].pc = "instantiate"
    /\ task' = [task EXCEPT ![c].pc = "connect", ![c].db = database]
    /\ UNCHANGED <<isSetup, database, connection, instantiated, connected>>
    /\ UNCHANGED <<exprVars, hookVars>>

\* connect resolved: the new connection is stored, isSetup is set and the
\* promise of setup() is resolved
ConnectDone ==
  \E c \in Callers :
    /\ task[c].pc = "connect"
    /\ connected' = connected + 1
    /\ connection' = connected + 1
    /\ isSetup' = TRUE
    /\ task' = [task EXCEPT ![c].pc = IF task[c].method = "setup" THEN "done" ELSE "setupDone"]
    /\ UNCHANGED <<database, instantiated>>
    /\ UNCHANGED <<exprVars, hookVars>>

\* selectBundle, instantiate or connect rejected: setup() and the method
\* that awaits it are rejected
SetupFails ==
  \E c \in Callers :
    /\ task[c].pc \in {"selectBundle", "instantiate", "connect"}
    /\ task' = [task EXCEPT ![c].pc = "rejected"]
    /\ UNCHANGED <<isSetup, database, connection, instantiated, connected>>
    /\ UNCHANGED <<exprVars, hookVars>>

\* runRawSQL after `await this.setup()`: runDuckDBQuery(statements[0]) throws
\* without a connection and otherwise sends the query to the connection
RunDuckDBQuery ==
  \E c \in Callers :
    /\ task[c].pc = "setupDone"
    /\ task' = [task EXCEPT ![c] =
                  IF connection = 0
                  THEN [@ EXCEPT !.pc = "rejected"]
                  ELSE [@ EXCEPT !.pc = "query",
                                 !.issued = Append(@, [sql |-> task[c].statements[1],
                                                       status |-> "running",
                                                       rows |-> <<>>])]]
    /\ UNCHANGED <<isSetup, database, connection, instantiated, connected>>
    /\ UNCHANGED <<exprVars, hookVars>>

\* the answer of the query that caller c waits for
Answered(c, status, rows) ==
  [task[c].issued EXCEPT ![Len(task[c].issued)] = [@ EXCEPT !.status = status, !.rows = rows]]

\* the query resolved with rows.  runRawSQL returns them; runSQL shifts the
\* statement off and goes on with runRawSQL of the next, or after the last
\* returns the rows cut to rowLimit
QueryDone ==
  \E c \in Callers, count \in RowCounts :
    LET t == task[c]
        rows == Rows(t.statements[1], count)
        answered == [t EXCEPT !.issued = Answered(c, "ok", rows)]
        result_ == truncatedRows(rows, rowLimit(t.options))
    IN /\ t.pc = "query"
       /\ task' = [task EXCEPT ![c] =
                     IF t.method = "runRawSQL"
                     THEN [answered EXCEPT !.pc = "done", !.rows = rows,
                                           !.totalRows = Len(rows)]
                     ELSE IF Len(t.statements) > 1
                     THEN setup_enter([answered EXCEPT !.statements = Tail(@)])
                     ELSE [answered EXCEPT !.pc = "done", !.rows = result_,
                                           !.totalRows = Len(result_)]]
       /\ UNCHANGED <<isSetup, database, connection, instantiated, connected>>
       /\ UNCHANGED <<exprVars, hookVars>>

\* the query rejected: runDuckDBQuery, runRawSQL and runSQL are rejected
QueryFails ==
  \E c \in Callers :
    /\ task[c].pc = "query"
    /\ task' = [task EXCEPT ![c] = [@ EXCEPT !.pc = "rejected",
                                             !.issued = Answered(c, "failed", <<>>)]]
    /\ UNCHANGED <<isSetup, database, connection, instantiated, connected>>
    /\ UNCHANGED <<exprVars, hookVars>>

\* no expression is being compiled while the connection is used
NoExpression ==
  /\ fs = SalesSpace
  /\ node = ExprNULL
  /\ built = 0
  /\ call = "none"
  /\ arg = [op |-> "none", other |-> Undefined]
  /\ result = NoResult

InitDuck == NewConnection /\ Unmounted /\ NoExpression

NextDuck ==
  \/ CallSetup
  \/ CallRunRawSQL
  \/ CallRunSQL
  \/ SelectBundleDone
  \/ InstantiateDone
  \/ ConnectDone
  \/ SetupFails
  \/ RunDuckDBQuery
  \/ QueryDone
  \/ QueryFails

\* MaxCallers callers, one call each, on one DuckDBWasmConnection
SpecDuck == InitDuck /\ [][NextDuck]_vars

----------------------------------------------------------------------------
(* useModel (hooks.ts): every render with a changed source or connections  *)
(* runs the effect, which starts compileModel and sets the model when its  *)
(* promise is fulfilled.                                                   *)

ModelSources == {"s1", "s2"}

\* the LookupConnection objects; "undefined" until useConnections has one
Lookups == {"undefined", "k1", "k2"}

\* the Model compileModel(source, connections) resolves with
Compiled(s, k) == [source |-> s, connections |-> k]

\* the effect of useModel for the rendered (s, k): nothing without
\* connections, otherwise compileModel(s, k).then(setModel)
useModel_effect(s, k) ==
  IF k = "undefined"
  THEN UNCHANGED <<promises, started>>
  ELSE /\ started' = started + 1
       /\ promises' = promises \cup
                        {[id |-> started + 1, source |-> s, connections |-> k,
                          state |-> "pending"]}

\* a render: the first one, or one whose source or connections differ from
\* those of the last render, so that the effect runs
Render ==
  \E s \in ModelSources, k \in Lookups :
    /\ started < MaxCompiles
    /\ <<s, k>> # <<modelSource, connections>>
    /\ modelSource' = s
    /\ connections' = k
    /\ useModel_effect(s, k)
    /\ UNCHANGED model
    /\ UNCHANGED <<exprVars, duckVars>>

\* a compileModel promise is fulfilled: then(setModel) stores its model
CompileModelFulfilled ==
  \E p \in promises :
    /\ p.state = "pending"
    /\ model' = Compiled(p.source, p.connections)
    /\ promises' = (promises \ {p}) \cup {[p EXCEPT !.state = "fulfilled"]}
    /\ UNCHANGED <<modelSource, connections, started>>
    /\ UNCHANGED <<exprVars, duckVars>>

\* a compileModel promise is rejected: setModel is not called
CompileModelRejected ==
  \E p \in promises :
    /\ p.state = "pending"
    /\ promises' = (promises \ {p}) \cup {[p EXCEPT !.state = "rejected"]}
    /\ UNCHANGED <<modelSource, connections, model, started>>
    /\ UNCHANGED <<exprVars, duckVars>>

InitHooks == Unmounted /\ NewConnection /\ NoExpression

NextHooks == Render \/ CompileModelFulfilled \/ CompileModelRejected

\* up to MaxCompiles compiles started by the renders of one useModel
SpecHooks == InitHooks /\ [][NextHooks]_vars

----------------------------------------------------------------------------
(* Properties *)

Returns == call # "none" /\ ~result.threw /\ ~result.denied

IsError(r) == ~r.threw /\ ~r.denied /\ r.v.dataType = "error"

HasDiag(log, msg) == \E i \in 1..Len(log) : log[i].msg = msg

\* the nodes whose only operand is `expr` and that consume its translation
UnaryConsumers ==
  {"ExprNot", "ExprMinus", "ExprParens", "ExprCast", "ExprFilter"}
    \cup (AggregateKinds \ {"ExprCount"})

\* the expression nodes directly below n
Children(n) ==
  CASE n.kind \in UnaryConsumers -> IF n.expr = Undefined THEN <<>> ELSE <<n.expr>>
    [] n.kind \in {"ExprLogicalOp", "ExprAddSub", "ExprMulDiv", "ExprAlternationTree"} ->
         <<n.left, n.right>>
    [] n.kind = "Range" -> <<n.first, n.last>>
    [] n.kind = "ExprCase" ->
         [i \in 1..Len(n.when) |-> n.when[i].whenThis]
           \o [i \in 1..Len(n.when) |-> n.when[i].thenThis]
           \o (IF n.elseClause = Undefined THEN <<>> ELSE <<n.elseClause>>)
    [] n.kind = "Pick" ->
         [i \in 1..Len(n.choices) |-> n.choices[i].when]
           \o SelectSeq([i \in 1..Len(n.choices) |-> n.choices[i].pick],
                        LAMBDA c : c # Undefined)
           \o (IF n.elsePick = Undefined THEN <<>> ELSE <<n.elsePick>>)
    [] OTHER -> <<>>

\* whether a node of one of the kinds occurs in the tree n
RECURSIVE Contains(_, _)
Contains(n, kinds) ==
  \/ n.kind \in kinds
  \/ \E i \in 1..Len(Children(n)) : Contains(Children(n)[i], kinds)

\* C1: whenever the translation of the root returns an error-typed value,
\* at least one diagnostic was logged during that translation (stated for
\* the trees without arithmetic nodes, whose translation is fully in
\* ast-expr.ts).
C1_ErrorHasDiagnostic ==
  ( /\ call = "translation"
    /\ ~Contains(node, {"ExprAddSub", "ExprMulDiv"})
    /\ IsError(result) )
  => Len(result.log) > 0

\* C2: translating a tree built by the node constructors never throws.
C2_TranslationNeverThrows == call = "translation" => ~result.threw

\* C3: a consumer whose operand translated to an error-typed value logs no
\* diagnostic of its own: the diagnostics are those logged for the operand.
C3_ErrorIsInert ==
  /\ ( /\ call = "translation"
       /\ node.kind \in UnaryConsumers
       /\ IsError(translation(node.expr, fs)) )
     => result.log = translation(node.expr, fs).log
  /\ ( /\ call = "translation"
       /\ node.kind = "ExprLogicalOp"
       /\ IsError(translation(node.left, fs)) \/ IsError(translation(node.right, fs)) )
     => result.log = translation(node.left, fs).log \o translation(node.right, fs).log
  /\ (call = "fieldDef" /\ IsError(translation(node, fs)))
     => result.log = translation(node, fs).log

\* C4: whenever the translation of an operand of a node is error-typed, the
\* node's own translation is error-typed.
C4_ErrorPropagates ==
  /\ ( /\ call = "translation"
       /\ ~result.threw
       /\ node.kind \in UnaryConsumers
       /\ IsError(translation(node.expr, fs)) )
     => IsError(result)
  /\ ( /\ call = "translation"
       /\ ~result.threw
       /\ node.kind = "ExprLogicalOp"
       /\ IsError(translation(node.left, fs)) \/ IsError(translation(node.right, fs)) )
     => IsError(result)

\* C5: an aggregate function (sum, avg, min, max, count_distinct) applied to
\* an expression whose translation is already aggregate logs a "Can't use
\* type" diagnostic and returns an error-typed value, never an aggregate
\* fragment.
C5_AggregateOfAggregateIsError ==
  ( /\ call = "translation"
    /\ node.kind \in AggregateKinds \ {"ExprCount"}
    /\ node.expr # Undefined
    /\ node.source = NoPath
    /\ ~translation(node.expr, fs).threw
    /\ translation(node.expr, fs).v.aggregate )
  => /\ IsError(result)
     /\ HasDiag(result.log, "Can't use type")
     /\ \A i \in 1..Len(result.v.value) : result.v.value[i].type # "aggregate"

\* a node that does not override apply
Ordinary(n) == n.kind \notin {"Range", "ExprAlternationTree", "Pick", "ExprParens"}

\* `other op bound`, as the binary engine composes it
Comparison(other, op, bound) == applyBinary(fs, other, op, bound)

\* two comparisons joined into one boolean value, the first one first
Joined(r1, join, r2) ==
  Returned(ExprValue("boolean", r1.v.aggregate \/ r2.v.aggregate,
                     r1.v.value \o <<Text(join)>> \o r2.v.value),
           r1.log \o r2.log)

\* C7: Range(first, last).apply(fs, op, other) with ordinary first and last
\* is (other >= first) and (other < last) for '=', (other < first) or
\* (other >= last) for '!=', other >= last for '>', other >= first for '>=',
\* other < first for '<' and other < last for '<='; `other` is the left
\* operand of every comparison, and the two-part forms are boolean with the
\* first-bound comparison first.
C7_RangeApply ==
  ( /\ call = "apply"
    /\ node.kind = "Range"
    /\ Ordinary(node.first) /\ Ordinary(node.last)
    /\ ~result.threw )
  => LET o == arg.other
     IN CASE arg.op = "=" ->
               result = Joined(Comparison(o, ">=", node.first), " and ",
                               Comparison(o, "<", node.last))
          [] arg.op = "!=" ->
               result = Joined(Comparison(o, "<", node.first), " or ",
                               Comparison(o, ">=", node.last))
          [] arg.op = ">" -> result = Comparison(o, ">=", node.last)
          [] arg.op = ">=" -> result = Comparison(o, ">=", node.first)
          [] arg.op = "<" -> result = Comparison(o, "<", node.first)
          [] arg.op = "<=" -> result = Comparison(o, "<", node.last)
          [] OTHER -> FALSE

C7_Witness ==
  /\ call = "apply"
  /\ node = Range(ExprNumber("1"), ExprNumber("2"))
  /\ arg = [op |-> "=", other |-> ExprField(<<"x">>)]
  /\ result.v.dataType = "boolean"
  /\ result.v.value =
       <<FieldFragment(<<"x">>), Text(" >= "), Text("1"), Text(" and "),
         FieldFragment(<<"x">>), Text(" < "), Text("2")>>

\* the fragments of `other applyOp leaf` for every leaf of an alternation
\* tree, joined as the tree's operators say
RECURSIVE Distributed(_, _, _)
Distributed(n, applyOp, other) ==
  IF n.kind = "ExprAlternationTree"
  THEN Distributed(n.left, applyOp, other)
         \o <<Text(IF n.op = "|" THEN " or " ELSE " and ")>>
         \o Distributed(n.right, applyOp, other)
  ELSE IF n.kind = "ExprParens" THEN Distributed(n.expr, applyOp, other)
  ELSE apply(n, fs, applyOp, other).v.value

\* C8: ExprAlternationTree(l, altOp, r).apply(fs, applyOp, other) is
\* compose(l.apply(applyOp, other), J, r.apply(applyOp, other)) with J 'or'
\* for '|' and 'and' for '&', left fragments first, also for nested trees
\* and for branches that are ranges or parenthesised partials.
C8_AlternationDistributes ==
  (call = "apply" /\ node.kind = "ExprAlternationTree" /\ ~result.threw)
  => /\ result.v.dataType = "boolean"
     /\ result.v.value = Distributed(node, arg.op, arg.other)
     /\ result.v.value =
          compose(apply(node.left, fs, arg.op, arg.other).v.value,
                  IF node.op = "|" THEN "or" ELSE "and",
                  apply(node.right, fs, arg.op, arg.other).v.value)

C8_Witness ==
  /\ call = "apply"
  /\ node.kind = "ExprAlternationTree"
  /\ node.left.kind = "ExprAlternationTree"
  /\ node.right.kind = "ExprParens"
  /\ node.op # node.left.op
  /\ arg.op = "="
  /\ ~result.threw
  /\ Len(result.log) = 0

----------------------------------------------------------------------------
(* SQL three-valued logic, to give the emitted boolean fragments a value.  *)
(* A value is "true", "false" or "null"; `row` is the value the boolean    *)
(* field b has in the row the SQL is evaluated on.                         *)

Truth == {"true", "false", "null"}

SqlNot(v) == IF v = "null" THEN "null" ELSE IF v = "true" THEN "false" ELSE "true"

SqlIsNull(v) == IF v = "null" THEN "true" ELSE "false"

SqlOr(v, w) ==
  IF v = "true" \/ w = "true" THEN "true"
  ELSE IF v = "false" /\ w = "false" THEN "false"
  ELSE "null"

SqlFail == [ok |-> FALSE, val |-> "null", next |-> 0]

IsText(seq, i, s) == i <= Len(seq) /\ seq[i].type = "text" /\ seq[i].s = s

\* the value of the boolean SQL expression that starts at fragment i, and
\* the position after it; the grammar is that of the literals, the field b,
\* (e), not (e) and (e) is null or not (e)
RECURSIVE SqlParse(_, _, _)
SqlParse(seq, i, row) ==
  IF i > Len(seq) THEN SqlFail
  ELSE IF seq[i].type = "field"
  THEN IF seq[i].path = <<"b">> THEN [ok |-> TRUE, val |-> row, next |-> i + 1]
       ELSE SqlFail
  ELSE IF seq[i].type # "text" THEN SqlFail
  ELSE IF seq[i].s \in {"true", "false"}
  THEN [ok |-> TRUE, val |-> seq[i].s, next |-> i + 1]
  ELSE IF seq[i].s = "NULL" THEN [ok |-> TRUE, val |-> "null", next |-> i + 1]
  ELSE IF seq[i].s = "not ("
  THEN LET inner == SqlParse(seq, i + 1, row)
       IN IF inner.ok /\ IsText(seq, inner.next, ")")
          THEN [ok |-> TRUE, val |-> SqlNot(inner.val), next |-> inner.next + 1]
          ELSE SqlFail
  ELSE IF seq[i].s = "("
  THEN LET inner == SqlParse(seq, i + 1, row)
           second == SqlParse(seq, inner.next + 1, row)
       IN IF ~inner.ok THEN SqlFail
          ELSE IF IsText(seq, inner.next, ")")
          THEN [ok |-> TRUE, val |-> inner.val, next |-> inner.next + 1]
          ELSE IF /\ IsText(seq, inner.next, ") is null or not (")
                  /\ second.ok
                  /\ IsText(seq, second.next, ")")
          THEN [ok |-> TRUE,
                val |-> SqlOr(SqlIsNull(inner.val), SqlNot(second.val)),
                next |-> second.next + 1]
          ELSE SqlFail
  ELSE SqlFail

SqlValue(seq, row) ==
  LET parsed == SqlParse(seq, 1, row)
  IN IF parsed.ok /\ parsed.next = Len(seq) + 1 THEN parsed.val ELSE "invalid"

\* the root is ExprNot(ExprNot(e)) with e of dataType boolean, translated
DoubleNegated ==
  /\ call = "translation"
  /\ node.kind = "ExprNot"
  /\ node.expr.kind = "ExprNot"
  /\ ~result.threw
  /\ translation(node.expr.expr, fs).v.dataType = "boolean"

\* C6 as stated: the SQL of ExprNot(ExprNot(e)) evaluates to the value of e
\* for e true, false and null.
C6_DoubleNegationPreservesNull ==
  DoubleNegated
  => \A row \in Truth :
       LET e == SqlValue(translation(node.expr.expr, fs).v.value, row)
       IN e \in Truth => SqlValue(result.v.value, row) = e

\* C6 as amended: the SQL of ExprNot(ExprNot(e)) evaluates to the value of e
\* when e is true or false, and to false when e is null.
C6_DoubleNegation ==
  DoubleNegated
  => \A row \in Truth :
       LET e == SqlValue(translation(node.expr.expr, fs).v.value, row)
       IN e \in Truth
          => SqlValue(result.v.value, row) = IF e = "null" THEN "false" ELSE e

C6_Witness ==
  /\ call = "translation"
  /\ node = ExprNot(ExprNot(ExprField(<<"b">>)))
  /\ result.v.dataType = "boolean"
  /\ SqlValue(result.v.value, "true") = "true"
  /\ SqlValue(result.v.value, "false") = "false"
  /\ SqlValue(result.v.value, "null") = "false"

----------------------------------------------------------------------------
(* Picks *)

SameOutcome(r, t) == r.threw = t.threw /\ r.denied = t.denied /\ r.v = t.v

\* choice i of the pick n has no pick, or a when that denies requestTranslation
PartialChoice(n, f, i) ==
  \/ n.choices[i].pick = Undefined
  \/ requestTranslation(n.choices[i].when, f).denied

\* asking the when of choice i for its requestTranslation throws
ThrowingChoice(n, f, i) ==
  /\ n.choices[i].pick # Undefined
  /\ requestTranslation(n.choices[i].when, f).threw

\* C9: requestTranslation denies for every Range, every alternation tree and
\* every Pick without else, with a choice without pick or with a choice whose
\* when denies (unless a when before that choice throws); ExprParens answers
\* requestTranslation and apply as its inner node does, so a parenthesised
\* partial is denied; every other node answers what translation answers.
C9_RequestTranslation ==
  /\ call = "requestTranslation"
     => CASE node.kind \in {"Range", "ExprAlternationTree"} -> result = Denied(<<>>)
          [] node.kind = "Pick" ->
               IF node.elsePick = Undefined THEN result.denied
               ELSE IF \E i \in 1..Len(node.choices) :
                         /\ PartialChoice(node, fs, i)
                         /\ \A j \in 1..(i - 1) : ~ThrowingChoice(node, fs, j)
               THEN result.denied
               ELSE IF \E i \in 1..Len(node.choices) : ThrowingChoice(node, fs, i)
               THEN result.threw
               ELSE SameOutcome(result, translation(node, fs))
          [] node.kind = "ExprParens" ->
               /\ SameOutcome(result, requestTranslation(node.expr, fs))
               /\ node.expr.kind \in {"Range", "ExprAlternationTree"} => result.denied
          [] OTHER -> SameOutcome(result, translation(node, fs))
  /\ (call = "apply" /\ node.kind = "ExprParens")
     => result = apply(node.expr, fs, arg.op, arg.other)

\* a pick with an else and picks whose when is a partial is denied, and so is
\* the same pick in parentheses
C9_Witness ==
  /\ call = "requestTranslation"
  /\ node.kind = "ExprParens"
  /\ node.expr.kind = "Pick"
  /\ node.expr.elsePick # Undefined
  /\ \A i \in 1..Len(node.expr.choices) : node.expr.choices[i].pick # Undefined
  /\ \E i \in 1..Len(node.expr.choices) :
       requestTranslation(node.expr.choices[i].when, fs).denied
  /\ result.denied

\* the pick n can have a value: an else, and for every choice a pick and a
\* value-bearing when of dataType boolean
ValueMode(n, f) ==
  /\ n.elsePick # Undefined
  /\ \A i \in 1..Len(n.choices) :
       /\ n.choices[i].pick # Undefined
       /\ ~requestTranslation(n.choices[i].when, f).denied
       /\ translation(n.choices[i].when, f).v.dataType = "boolean"

\* the picks and the else are loosely type-equal to the first pick
TypesAgree(n, f) ==
  LET returnType == translation(n.choices[1].pick, f).v
  IN /\ \A i \in 1..Len(n.choices) :
          FT_typeEq(returnType, translation(n.choices[i].pick, f).v, TRUE)
     /\ FT_typeEq(returnType, translation(n.elsePick, f).v, TRUE)

\* " WHEN " when_i " THEN " pick_i for the choices i..Len, in order
RECURSIVE WhenThens(_, _, _)
WhenThens(n, f, i) ==
  IF i > Len(n.choices) THEN <<>>
  ELSE <<Text(" WHEN ")>> \o translation(n.choices[i].when, f).v.value
         \o <<Text(" THEN ")>> \o translation(n.choices[i].pick, f).v.value
         \o WhenThens(n, f, i + 1)

CaseSequence(n, f) ==
  <<Text("CASE")>> \o WhenThens(n, f, 1)
    \o <<Text(" ELSE ")>> \o translation(n.elsePick, f).v.value \o <<Text(" END")>>

\* C10: when Pick.translation returns, then: without an else, with a choice
\* without pick, or with a when that is partial or not boolean, it returns an
\* error-typed value and the pick has logged a diagnostic; otherwise, with
\* loosely type-equal picks and else, it returns the CASE sequence with the
\* dataType of the first pick, and with disagreeing types an error-typed
\* value and a diagnostic.
C10_PickTranslation ==
  (call = "translation" /\ node.kind = "Pick" /\ ~result.threw)
  => /\ ~ValueMode(node, fs)
        => /\ IsError(result)
           /\ \E i \in 1..Len(result.log) : result.log[i].at = "pick"
     /\ (ValueMode(node, fs) /\ TypesAgree(node, fs))
        => /\ result.v.value = CaseSequence(node, fs)
           /\ result.v.dataType = translation(node.choices[1].pick, fs).v.dataType
     /\ (ValueMode(node, fs) /\ ~TypesAgree(node, fs))
        => /\ IsError(result)
           /\ Len(result.log) > 0
     /\ ~IsError(result) => ValueMode(node, fs)

\* scenario S6 of the specification
C10_Witness ==
  /\ call = "translation"
  /\ node = Pick(<<PickWhen(ExprNumber("1"), Boolean("true"))>>, ExprNumber("0"))
  /\ result.v = ExprValue("number", FALSE,
                          <<Text("CASE"), Text(" WHEN "), Text("true"), Text(" THEN "),
                            Text("1"), Text(" ELSE "), Text("0"), Text(" END")>>)
  /\ result.log = <<>>

\* the branch values of the pick n: in value mode the translations of the
\* picks and of the else, in apply mode with `other` for an omitted one
ThenOf(n, f, i, other) ==
  translation(IF n.choices[i].pick # Undefined THEN n.choices[i].pick ELSE other, f)

ElseOf(n, f, other) ==
  translation(IF n.elsePick # Undefined THEN n.elsePick ELSE other, f)

BranchValues(n, f, other) ==
  [i \in 1..Len(n.choices) |-> ThenOf(n, f, i, other)] \o <<ElseOf(n, f, other)>>

\* two branches have values of different dataTypes, neither of them null
BranchesDisagree(n, f, other) ==
  LET branches == BranchValues(n, f, other)
  IN \E i, j \in 1..Len(branches) :
       /\ branches[i].v.dataType # "null"
       /\ branches[j].v.dataType # "null"
       /\ branches[i].v.dataType # branches[j].v.dataType

\* the pick n has a value for every branch: an else and a pick per choice
\* in value mode, `other` standing in for the omitted ones in apply mode
HasBranches(n) ==
  \/ call = "apply"
  \/ /\ call = "translation"
     /\ n.elsePick # Undefined
     /\ \A i \in 1..Len(n.choices) : n.choices[i].pick # Undefined

\* C11: a pick (translation or apply) two of whose branch values, picks or
\* else, have different non-null dataTypes returns an error-typed value and
\* logs a diagnostic.
C11_PickBranchesAgree ==
  ( /\ node.kind = "Pick"
    /\ HasBranches(node)
    /\ ~result.threw
    /\ BranchesDisagree(node, fs, arg.other) )
  => IsError(result) /\ Len(result.log) > 0

\* " WHEN " when_i.apply("=", other) " THEN " then_i for the choices i..Len
RECURSIVE AppliedWhenThens(_, _, _, _)
AppliedWhenThens(n, f, i, other) ==
  IF i > Len(n.choices) THEN <<>>
  ELSE <<Text(" WHEN ")>> \o apply(n.choices[i].when, f, "=", other).v.value
         \o <<Text(" THEN ")>> \o ThenOf(n, f, i, other).v.value
         \o AppliedWhenThens(n, f, i + 1, other)

AppliedCaseSequence(n, f, other) ==
  <<Text("CASE")>> \o AppliedWhenThens(n, f, 1, other)
    \o <<Text(" ELSE ")>> \o ElseOf(n, f, other).v.value \o <<Text(" END")>>

\* every branch value is loosely type-equal to the first one
BranchesLooselyEqual(n, f, other) ==
  LET branches == BranchValues(n, f, other)
  IN \A i \in 1..Len(branches) : FT_typeEq(branches[1].v, branches[i].v, TRUE)

\* C12: when Pick.apply returns, whatever op is: with branch values loosely
\* type-equal to the first it returns "CASE", " WHEN " when_i.apply("=",
\* other) " THEN " then_i per choice in order, " ELSE " else " END", then_i
\* and else being `other` where omitted; and it never returns another
\* non-error value.
C12_PickApply ==
  (call = "apply" /\ node.kind = "Pick" /\ ~result.threw)
  => /\ BranchesLooselyEqual(node, fs, arg.other)
        => result.v.value = AppliedCaseSequence(node, fs, arg.other)
     /\ ~IsError(result)
        => result.v.value = AppliedCaseSequence(node, fs, arg.other)

\* x ? pick 1..2 (no pick value, no else): both default to x
C12_Witness ==
  /\ call = "apply"
  /\ node = Pick(<<PickWhen(Undefined, Range(ExprNumber("1"), ExprNumber("2")))>>,
                 Undefined)
  /\ arg.other = ExprField(<<"x">>)
  /\ result.v.dataType = "number"
  /\ result.v.value[1] = Text("CASE")
  /\ result.v.value[Len(result.v.value) - 1] = FieldFragment(<<"x">>)
  /\ result.v.value[Len(result.v.value)] = Text(" END")

----------------------------------------------------------------------------
(* Case *)

\* the values of the THEN clauses in order, then that of the ELSE if any
CaseBranches(n, f) ==
  [i \in 1..Len(n.when) |-> translation(n.when[i].thenThis, f).v]
    \o (IF n.elseClause = Undefined THEN <<>> ELSE <<translation(n.elseClause, f).v>>)

IsTyped(v) == v.dataType # "null"

\* C13: when ExprCase.translation returns: with no THEN or ELSE branch that
\* is not null it logs "case statement type not computable" and returns an
\* error-typed value; with a non-null branch whose dataType differs from
\* that of the first non-null branch it logs a Mismatched THEN/ELSE clause
\* diagnostic and returns an error-typed value; otherwise its dataType is
\* that of the first non-null branch.
C13_CaseType ==
  (call = "translation" /\ node.kind = "ExprCase" /\ ~result.threw)
  => LET typed == SelectSeq(CaseBranches(node, fs), IsTyped)
     IN IF Len(typed) = 0
        THEN IsError(result) /\ HasDiag(result.log, "case statement type not computable")
        ELSE IF \E i \in 1..Len(typed) : typed[i].dataType # typed[1].dataType
        THEN /\ IsError(result)
             /\ \/ HasDiag(result.log, "Mismatched THEN clause types")
                \/ HasDiag(result.log, "Mismatched ELSE clause type")
        ELSE result.v.dataType = typed[1].dataType

\* a null THEN followed by a number ELSE: the type is that of the ELSE
C13_Witness ==
  /\ call = "translation"
  /\ node = ExprCase(<<WhenClause(Boolean("true"), ExprNULL)>>, ExprNumber("0"))
  /\ result.v.dataType = "number"
  /\ result.log = <<>>

----------------------------------------------------------------------------
(* Filters and aggregate functions *)

AnyAggregateCondition(filter) == \E i \in 1..Len(filter) : filter[i].aggregate

\* C14: the translation of an ExprFilter whose inner translation is not
\* aggregate is that inner translation, whatever the filter holds.
C14_FilterIdentity ==
  ( /\ call = "translation"
    /\ node.kind = "ExprFilter"
    /\ ~result.threw
    /\ ~translation(node.expr, fs).v.aggregate )
  => result.v = translation(node.expr, fs).v

\* C14 as amended: the translation of an ExprFilter whose inner translation
\* is not aggregate is that inner translation (value and diagnostics) when
\* no condition of the filter is aggregate, and an error-typed value with the
\* diagnostic "Cannot filter a field with an aggregate computation" when one
\* is.
C14_FilterIdentityUnlessAggregateCondition ==
  ( /\ call = "translation"
    /\ node.kind = "ExprFilter"
    /\ ~result.threw
    /\ ~translation(node.expr, fs).v.aggregate )
  => IF AnyAggregateCondition(node.filter)
     THEN /\ IsError(result)
          /\ HasDiag(result.log, "Cannot filter a field with an aggregate computation")
     ELSE result = translation(node.expr, fs)

\* a number field under a filter of one condition comes out as it went in
C14_Witness ==
  /\ call = "translation"
  /\ node.kind = "ExprFilter"
  /\ node.expr = ExprField(<<"x">>)
  /\ Len(node.filter) = 1
  /\ result.v = ExprValue("number", FALSE, <<FieldFragment(<<"x">>)>>)

FilterableTypes == {"string", "number", "date", "timestamp"}

\* C15: when ExprFilter.translation returns: with an aggregate condition in
\* the filter it logs "Cannot filter a field with an aggregate computation"
\* and returns an error-typed value; without one, over an aggregate inner
\* value of type string, number, date or timestamp, it returns the one
\* fragment filterExpression {e: inner.value, filterList} with the inner
\* dataType and aggregate flag.
C15_FilterAggregate ==
  (call = "translation" /\ node.kind = "ExprFilter" /\ ~result.threw)
  => LET inner == translation(node.expr, fs).v
     IN /\ AnyAggregateCondition(node.filter)
           => /\ IsError(result)
              /\ HasDiag(result.log,
                         "Cannot filter a field with an aggregate computation")
        /\ ( /\ ~AnyAggregateCondition(node.filter)
             /\ inner.aggregate
             /\ inner.dataType \in FilterableTypes )
           => /\ result.v.value = <<FilterFragment(inner.value, node.filter)>>
              /\ result.v.dataType = inner.dataType
              /\ result.v.aggregate = inner.aggregate

\* min('a') filtered by one condition
C15_Witness ==
  /\ call = "translation"
  /\ node.kind = "ExprFilter"
  /\ node.expr = ExprMin(ExprString("'a'"))
  /\ Len(node.filter) = 1
  /\ result.v.dataType = "string"
  /\ result.v.aggregate
  /\ Len(result.v.value) = 1
  /\ result.v.value[1].type = "filterExpression"

\* the child types an aggregate function accepts
AcceptedTypes(n) ==
  IF n.kind \in {"ExprSum", "ExprAvg"} THEN {"number"}
  ELSE {"number", "string", "date", "timestamp"}

\* C16: count returns number, aggregate, one aggregate fragment with no
\* expression; an aggregate function over an expression (no source) whose
\* dataType it accepts (number for sum and avg; number, string, date or
\* timestamp for min, max and count_distinct) returns aggregate = true, the
\* one fragment {function, e: the expression's fragments} and dataType
\* number, or the expression's dataType for min and max; over any other
\* dataType it logs a diagnostic and returns an error-typed value.
C16_AggregateFunction ==
  ( /\ call = "translation"
    /\ node.kind \in AggregateKinds
    /\ ~result.threw
    /\ node.kind # "ExprCount" => node.expr # Undefined /\ node.source = NoPath )
  => IF node.kind = "ExprCount"
     THEN result.v = ExprValue("number", TRUE,
                               <<AggregateFragment("count", <<>>, node.source)>>)
     ELSE LET child == translation(node.expr, fs).v
          IN IF child.dataType \in AcceptedTypes(node)
             THEN result.v =
                    ExprValue(IF node.kind \in {"ExprMin", "ExprMax"}
                              THEN child.dataType ELSE "number",
                              TRUE,
                              <<AggregateFragment(node.func, child.value, NoPath)>>)
             ELSE IsError(result) /\ HasDiag(result.log, "Can't use type")

C16_Witness ==
  /\ call = "translation"
  /\ node = ExprMax(ExprString("'a'"))
  /\ result.v.dataType = "string"
  /\ result.v.aggregate
  /\ result.v.value = <<AggregateFragment("max", <<Text("'a'")>>, NoPath)>>

\* the source of the aggregate function n resolves to an atomic field
AtomicSource(n, f) ==
  /\ n.source # NoPath
  /\ n.source \in DOMAIN f
  /\ isAtomicFieldType(f[n.source].type)

\* the expression an aggregate function is to aggregate: the one given, and
\* by default the reference to its atomic source field
DeterminedExpr(n, f) ==
  IF n.expr # Undefined THEN translation(n.expr, f).v
  ELSE IF AtomicSource(n, f)
  THEN ExprValue(f[n.source].type, f[n.source].aggregate, <<FieldFragment(n.source)>>)
  ELSE Undefined

\* C17: when the translation of sum or avg returns: if no expression is
\* given and the source is no atomic field, it logs "Missing expression for
\* aggregate function" and returns an error-typed value; otherwise a
\* non-error result aggregates the expression given, or by default the
\* atomic source field, and its structPath is the source without its leaf
\* segment when the source is an atomic field, the source itself otherwise.
C17_AggregateSource ==
  (call = "translation" /\ node.kind \in {"ExprSum", "ExprAvg"} /\ ~result.threw)
  => IF DeterminedExpr(node, fs) = Undefined
     THEN /\ IsError(result)
          /\ HasDiag(result.log, "Missing expression for aggregate function")
     ELSE ~IsError(result)
          => result.v.value =
               <<AggregateFragment(node.func, DeterminedExpr(node, fs).value,
                                   IF AtomicSource(node, fs)
                                   THEN FieldPath_body(node.source)
                                   ELSE node.source)>>

----------------------------------------------------------------------------
(* Casts *)

\* cast(e as sqlType) or safe_cast(e as sqlType) around the fragments e
CastOf(safe, e, sqlType) ==
  compressExpr(<<Text((IF safe THEN "safe_cast" ELSE "cast") \o "(")>> \o e
                 \o <<Text(" as " \o sqlType \o ")")>>)

\* what C18 says of a cast to the SQL type sqlTypeOf[castType]
CastContract(sqlTypeOf) ==
  (call = "translation" /\ node.kind = "ExprCast" /\ ~result.threw)
  => LET inner == translation(node.expr, fs).v
     IN IF node.castType = "date" /\ inner.dataType = "timestamp"
        THEN result.v = [dataType |-> "date", aggregate |-> inner.aggregate,
                         timeframe |-> "day",
                         value |-> compressExpr(<<Text("DATE(")>> \o inner.value
                                                  \o <<Text(")")>>)]
        ELSE /\ result.v.dataType = node.castType
             /\ result.v.aggregate = inner.aggregate
             /\ result.v.timeframe = inner.timeframe
             /\ result.v.value =
                  IF node.castType = "timestamp" /\ inner.dataType = "date"
                  THEN compressExpr(<<Text("TIMESTAMP(")>> \o inner.value
                                      \o <<Text(")")>>)
                  ELSE CastOf(node.safe, inner.value, sqlTypeOf[node.castType])

\* C18 as stated: a cast emits cast(e as type) or safe_cast(e as type) with
\* the cast type as written, the dataType of the cast type, the aggregate
\* flag and timeframe of e; but TIMESTAMP(e) for a date cast to timestamp,
\* and DATE(e) with dataType date and timeframe day for a timestamp cast to
\* date.
C18_CastAsWritten == CastContract([t \in CastTypes |-> t])

\* C18 as amended: the same, the SQL type being float64 for the cast type
\* number and the cast type itself otherwise.
C18_Cast ==
  CastContract([t \in CastTypes |-> IF t = "number" THEN "float64" ELSE t])

C18_Witness ==
  /\ call = "translation"
  /\ node = ExprCast(ExprTimeLiteral("timestamp", "2021-01-01 00:00:00"), "date", TRUE)
  /\ result.v.dataType = "date"
  /\ result.v.timeframe = "day"
  /\ result.v.value = <<Text("DATE('2021-01-01 00:00:00')")>>

----------------------------------------------------------------------------
(* Aggregate flag *)

\* what the non-aggregating node n translated to produce its result: the
\* values of its operands, in the order the method asks for them
OperandValues(n, f, entry, op, other) ==
  IF entry = "translation"
  THEN CASE n.kind \in {"ExprParens", "ExprMinus", "ExprNot", "ExprCast", "ExprFilter"}
              -> <<translation(n.expr, f).v>>
         [] n.kind = "ExprLogicalOp"
              -> <<translation(n.left, f).v, translation(n.right, f).v>>
         [] n.kind = "ExprCase"
              -> [i \in 1..Len(n.when) |-> translation(n.when[i].whenThis, f).v]
                   \o CaseBranches(n, f)
         [] n.kind = "Pick"
              -> [i \in 1..Len(n.choices) |-> requestTranslation(n.choices[i].when, f).v]
                   \o [i \in 1..Len(n.choices) |-> translation(n.choices[i].pick, f).v]
                   \o <<translation(n.elsePick, f).v>>
  ELSE CASE n.kind = "ExprAlternationTree"
              -> <<apply(n.left, f, op, other).v, apply(n.right, f, op, other).v>>
         [] n.kind = "Range"
              -> <<apply(n.first, f, IF op = "=" THEN ">=" ELSE "<", other).v,
                   apply(n.last, f, IF op = "=" THEN "<" ELSE ">=", other).v>>
         [] n.kind = "Pick"
              -> [i \in 1..Len(n.choices) |-> apply(n.choices[i].when, f, "=", other).v]
                   \o [i \in 1..Len(n.choices) |-> ThenOf(n, f, i, other).v]
                   \o <<ElseOf(n, f, other).v>>

\* the calls whose result combines the values of several operands or passes
\* on that of one
Propagates(n, entry, op) ==
  \/ /\ entry = "translation"
     /\ n.kind \in {"ExprParens", "ExprMinus", "ExprNot", "ExprCast", "ExprFilter",
                    "ExprLogicalOp", "ExprCase", "Pick"}
  \/ /\ entry = "apply"
     /\ \/ n.kind \in {"ExprAlternationTree", "Pick"}
        \/ n.kind = "Range" /\ op \in {"=", "!="}

\* C19: whenever a non-aggregating node (parens, minus, not, cast, filter,
\* and/or, case and pick in translation; alternation, range and pick in
\* apply) returns a non-error value, the aggregate flag of that value is the
\* logical OR of the aggregate flags of all the operand values it translated.
C19_AggregatePropagates ==
  (Propagates(node, call, arg.op) /\ ~result.threw /\ ~IsError(result))
  => LET operands == OperandValues(node, fs, call, arg.op, arg.other)
     IN result.v.aggregate = (\E i \in 1..Len(operands) : operands[i].aggregate)

\* CASE WHEN true THEN 1 ELSE sold END: only the ELSE is aggregate
C19_Witness ==
  /\ call = "translation"
  /\ node = ExprCase(<<WhenClause(Boolean("true"), ExprNumber("1"))>>,
                     ExprField(<<"sold">>))
  /\ ~translation(Boolean("true"), fs).v.aggregate
  /\ ~translation(ExprNumber("1"), fs).v.aggregate
  /\ translation(ExprField(<<"sold">>), fs).v.aggregate
  /\ result.v.dataType = "number"
  /\ result.v.aggregate

----------------------------------------------------------------------------
(* SQL text of a case *)

\* the literal texts of the translations that end in a blank
BlankEnded ==
  {Text("CASE "), Text("WHEN "), Text(" WHEN "), Text(" THEN "), Text(" ELSE "),
   Text(" and "), Text(" or "), Text(", ")}

\* C21: in the fragments a non-error ExprCase.translation returns, every
\* "WHEN " keyword but the one that follows "CASE " comes after a fragment
\* that ends in whitespace, whatever the number of WHEN clauses.
C21_WhenSeparated ==
  (call = "translation" /\ node.kind = "ExprCase" /\ ~result.threw /\ ~IsError(result))
  => \A i \in 2..Len(result.v.value) :
       result.v.value[i] = Text("WHEN ") => result.v.value[i - 1] \in BlankEnded

----------------------------------------------------------------------------
(* One walk of the tree *)

\* the operands of a node, those of the aggregate functions included
Parts(n) ==
  IF n.kind \in AggregateKinds
  THEN IF n.expr = Undefined THEN <<>> ELSE <<n.expr>>
  ELSE Children(n)

\* the number of references to a field that f does not define, counted
\* with their multiplicity over the trees of the sequence
RECURSIVE UndefinedReferences(_, _)
UndefinedReferences(trees, f) ==
  IF trees = <<>> THEN 0
  ELSE LET n == Head(trees)
       IN (IF n.kind = "ExprField" /\ n.fieldName \notin DOMAIN f THEN 1 ELSE 0)
            + UndefinedReferences(Parts(n) \o Tail(trees), f)

Reported(log) ==
  Cardinality({i \in 1..Len(log) : log[i].msg = "Reference to undefined field"})

\* C22: one call of translation, requestTranslation or apply on the root
\* evaluates the translation of each node at most once, so it logs at most
\* one "Reference to undefined field" per reference to an undefined field in
\* the tree (the `other` operand of apply counted with the tree).
C22_OneDiagnosticPerLeaf ==
  (call \in {"translation", "requestTranslation", "apply"} /\ ~result.threw)
  => Reported(result.log)
       <= UndefinedReferences(<<node>> \o (IF call = "apply" THEN <<arg.other>> ELSE <<>>), fs)

----------------------------------------------------------------------------
(* Operator of a pick *)

\* C23: what Pick.apply(fs, op, other) yields, value and diagnostics, is the
\* same for every operator op, the pick, the FieldSpace and `other` being
\* the same: whatever op the call was made with, its result is the one the
\* call with = gives, so the results for any two operators are identical.
C23_PickApplyIgnoresOp ==
  (call = "apply" /\ node.kind = "Pick")
  => result = apply(node, fs, "=", arg.other)

\* a pick applied with < returns the CASE that compares its when with =
C23_Witness ==
  /\ call = "apply"
  /\ node.kind = "Pick"
  /\ Len(node.choices) > 0
  /\ arg.op = "<"
  /\ ~result.threw
  /\ ~IsError(result)
  /\ \E i \in 1..Len(result.v.value) : result.v.value[i] = Text(" = ")
  /\ \A i \in 1..Len(result.v.value) : result.v.value[i] # Text(" < ")

----------------------------------------------------------------------------
(* DuckDB-Wasm connection *)

\* C24: whatever the interleaving of the callers' setup() calls, made
\* directly or through runRawSQL and runSQL, at most one database is
\* instantiated, at most one connection is opened, and a connection once
\* stored is never replaced by another.
C24_SetupOnce ==
  [][ /\ instantiated' <= 1
      /\ connected' <= 1
      /\ connection # 0 => connection' = connection ]_vars

\* the rows runSQL returns for the answer `rows` of its last statement
Expected(rows, options) ==
  LET limit == IF "rowLimit" \in DOMAIN options THEN options.rowLimit ELSE 10
  IN [i \in 1..(IF Len(rows) < limit THEN Len(rows) ELSE limit) |-> rows[i]]

\* C26: the queries a runSQL call has sent are the first statements of the
\* split text, in order; each but the last sent has completed successfully
\* (none is started while another runs or after one failed); and when runSQL
\* returns, every statement has run and it returns the first rowLimit rows
\* (10 without a limit) of the last statement's answer, totalRows being the
\* number of rows returned.
C26_RunSQL ==
  \A c \in Callers :
    task[c].method = "runSQL"
    => LET t == task[c]
           all == split(t.sql, <<>>)
           n == Len(t.issued)
       IN /\ n <= Len(all)
          /\ \A i \in 1..n : t.issued[i].sql = all[i]
          /\ \A i \in 1..(n - 1) : t.issued[i].status = "ok"
          /\ t.pc = "done"
             => /\ n = Len(all)
                /\ t.issued[n].status = "ok"
                /\ t.rows = Expected(t.issued[n].rows, t.options)
                /\ t.totalRows = Len(t.rows)

\* three statements, no rowLimit, the last answered with 11 rows: the first
\* 10 are returned
C26_Witness ==
  \E c \in Callers :
    /\ task[c].method = "runSQL"
    /\ task[c].pc = "done"
    /\ task[c].sql = <<"a", Marker, "b", Marker, "c">>
    /\ task[c].options = <<>>
    /\ Len(task[c].issued) = 3
    /\ Len(task[c].issued[3].rows) = 11
    /\ task[c].issued[3].sql = <<"c">>
    /\ Len(task[c].rows) = 10
    /\ task[c].totalRows = 10

----------------------------------------------------------------------------
(* useModel *)

\* C25: once every compileModel promise that was started is fulfilled, the
\* model state is the model compiled from the source and connections of the
\* last render (which started a compile, its connections being defined).
C25_ModelIsLatest ==
  ( /\ started > 0
    /\ connections # "undefined"
    /\ \A p \in promises : p.state = "fulfilled" )
  => model = Compiled(modelSource, connections)

============================================================================
